---- MODULE Spec2Model ----
(***************************************************************************)
(* Model of the Kafka consumption pipeline of post_search:                 *)
(* Handler.ConsumeClaim, Handler.processWithRetry, the topic handlers,     *)
(* EventService, isPermanentError and SendToDLQ, for one partition claim   *)
(* (Spec, FairSpec, TimerFairSpec); the claim loop next to a loop of       *)
(* another partition (ClaimsSpec); and ConsumerGroup.Start / Close with    *)
(* the Handler's session lifecycle (GroupSpec, GroupFairSpec); and parts   *)
(* looked at on their own: isPermanentError (ClassifySpec) and the index   *)
(* under redelivery of an approved event (RedeliverySpec), the commit of   *)
(* marked offsets (OffsetsSpec, OffsetsFairSpec), and the two events of    *)
(* one post on the partitions of their topics (TopicsSpec).                *)
(***************************************************************************)
EXTENDS Integers, Sequences, FiniteSets, TLC

\* ---------------------------------------------------------------- bounds
MaxMsgs == 2
MaxRetryLimit == 2
MaxStarts == 2
MaxChain == 2

\* ------------------------------------------------------------ vocabulary
AuditTopic == "post_audit"
DeleteTopic == "post_delete"
OtherTopic == "other_topic"
DLQTopicName == "post_dlq"

PostIDs == {0, 1}
Titles == {"", "title"}
Operations == {"delete", "archive"}

\* The payloads a message can carry: bytes that are not valid JSON for the
\* event struct, or a JSON object with the fields the handlers read.
BadValue == [valid |-> FALSE, id |-> 0, title |-> "", operation |-> ""]
AuditValues == {[valid |-> TRUE, id |-> i, title |-> t, operation |-> ""] :
                   i \in PostIDs, t \in Titles}
DeleteValues == {[valid |-> TRUE, id |-> i, title |-> "", operation |-> op] :
                   i \in PostIDs, op \in Operations}

\* sarama.ConsumerMessage.Key: nil or some bytes.  The events the producers
\* encode carry a key, bytes that are no event carry none.
NilKey == "nil"
PostKey == "post-key"
KeyOf(value) == IF value.valid THEN PostKey ELSE NilKey

\* claim.Partition(): ConsumeClaim serves one partition
Partitions == {12}

\* sarama.ConsumerMessage without its offset and partition (the offset is its
\* place in the partition, the partition is the claim's).
InboundValues ==
    {[topic |-> AuditTopic, value |-> v] : v \in AuditValues \cup {BadValue}}
    \cup {[topic |-> DeleteTopic, value |-> v] : v \in DeleteValues \cup {BadValue}}
    \cup {[topic |-> OtherTopic, value |-> BadValue]}
Inbound ==
    {[topic |-> m.topic, value |-> m.value, key |-> KeyOf(m.value)] :
        m \in InboundValues}

\* ---------------------------------------------------------------- errors
\* An error is its chain of wrapped errors, outermost first; Nil is no error.
Nil == <<>>
ErrInvalidPostID == "ErrInvalidPostID"
ErrEmptyTitle == "ErrEmptyTitle"
ErrMissingAuthorID == "ErrMissingAuthorID"
ErrInvalidEventFormat == "ErrInvalidEventFormat"
ContextCanceled == "context.Canceled"
ContextDeadlineExceeded == "context.DeadlineExceeded"
JSONSyntaxError == "json.SyntaxError"
JSONUnmarshalTypeError == "json.UnmarshalTypeError"
PermanentError == "backoff.PermanentError"
ESError == "es.Error"
ProducerError == "sarama.ProducerError"
DLQNotConfigured == "dlq.NotConfigured"
ErrClosedConsumerGroup == "sarama.ErrClosedConsumerGroup"
ConsumeError == "sarama.ConsumeError"
ClientCloseError == "sarama.CloseError"
CloseTimeoutError == "close.WaitTimeout"

\* fmt.Errorf("...: %w", err)
Wrap(err) == <<"fmt.wrapError">> \o err
\* errors.Is / errors.As walk the chain
ErrorsIs(err, target) == \E i \in DOMAIN err : err[i] = target

VARIABLES
    maxRetry,      \* Handler.maxRetry
    dlqProducer,   \* Handler.dlqProducer is not nil
    dlqTopic,      \* Handler.dlqTopic
    ctxCancelled,  \* session.Context() is done
    delivered,     \* number of messages the broker has put in claim.Messages()
    chanClosed,    \* claim.Messages() is closed
    pulled,        \* number of messages the for-range loop has received
    message,       \* the message of the running (or last) loop iteration
    pc,            \* position of ConsumeClaim
    numTries,      \* backOffTries.numTries of the running processWithRetry
    processErr,    \* result of processWithRetry
    dlqErr,        \* result of SendToDLQ
    ret,           \* return value of ConsumeClaim
    store,         \* post IDs indexed in Elasticsearch
    marks,         \* offset -> number of session.MarkMessage calls
    results,       \* errors returned by the handlerFunc invocations for message
    notifies,      \* number of notifyFunc calls for message
    dlqCalls,      \* number of SendToDLQ calls for message
    dlqMessage,    \* the record the last SendToDLQ call built
    sendState,     \* offset -> the SendMessage goroutine started for it
    partition,     \* claim.Partition()
    svcCalls,      \* number of EventService calls for message
    answers,       \* what the repository answered in each invocation for message
    sendCalls,     \* number of producer.SendMessage calls for message
    siblingPc,     \* position of the ConsumeClaim of another partition
    siblingMarks,  \* number of messages that ConsumeClaim has marked
    ready,         \* Handler.ready: "open" or "closed"
    setupCalled,   \* Handler.Setup has been called
    panicked,      \* a close of the closed ready channel has panicked
    startCtx,      \* the ctx given to Start: "live" or its Err()
    cgClosed,      \* sarama's group client has been asked to close
    starts,        \* number of Start calls made
    startPc,       \* Start call -> position of its caller
    sup,           \* Start call -> position of the goroutine it launched
    consumeErr,    \* Start call -> what its last Consume call returned
    closePc,       \* position of the Close call
    closeErr,      \* Close's local closeErr
    finished,      \* Close's local channel finished is closed
    closeRet,      \* what the last Close call returned
    errIn,         \* the error handed to isPermanentError
    verdict,       \* what isPermanentError answered last
    esIndex,       \* the documents of the Elasticsearch index
    now,           \* time.Now(), in ticks
    redelivered,   \* the approved event the broker delivers again and again
    deliveries,    \* how many times it has been processed with success
    afterFirst,    \* the business fields in the index after the first time
    committed,     \* the highest offset of the partition committed at the broker
    sessionOver,   \* sarama has released the session of the claim
    produced,      \* the topics the two events of one post went to, in order
    loopPc,        \* topic -> position of the ConsumeClaim of its partition
    loopTries,     \* topic -> retries granted for its event
    applied,       \* the topics whose event reached the store, in order
    posts          \* the IDs of the posts in the store

\* the claim loop of one partition and what it works on
claim == <<maxRetry, dlqProducer, dlqTopic, ctxCancelled, delivered, chanClosed,
           pulled, message, pc, numTries, processErr, dlqErr, ret, store, marks,
           results, notifies, dlqCalls, dlqMessage, sendState, partition,
           svcCalls, answers, sendCalls>>
\* the claim loop of another partition
sibling == <<siblingPc, siblingMarks>>
\* the ConsumerGroup and the Handler's readiness
group == <<ready, setupCalled, panicked, startCtx, cgClosed, starts, startPc,
           sup, consumeErr, closePc, closeErr, finished, closeRet>>
\* one call of isPermanentError
classify == <<errIn, verdict>>
\* the parts of the program looked at on their own
\* the index under redelivery of one event
documents == <<esIndex, now, redelivered, deliveries, afterFirst>>
\* the broker's record of the group's progress on the partition
offsets == <<committed, sessionOver>>
\* the two events of one post on the partitions of their topics
topics == <<produced, loopPc, loopTries, applied, posts>>
aside == <<classify, documents, offsets, topics>>
\* what a step of this partition's ConsumeClaim does not touch
outside == <<sibling, group, aside>>

vars == <<claim, sibling, group, aside>>

config == <<maxRetry, dlqProducer, dlqTopic, partition>>
channel == <<delivered, chanClosed>>
iteration == <<results, notifies, dlqCalls, svcCalls, answers, sendCalls>>

\* Offsets start at 1 (claim.InitialOffset()); offset 0 is "no message".
Offsets == 1..MaxMsgs
NoMessage == [offset |-> 0, partition |-> 0, topic |-> "", value |-> BadValue,
              key |-> NilKey]
NoRecord == <<>>
offset == message.offset

\* ------------------------------------------------- error classification
\* variant: the context's errors are not among the permanent ones
isPermanentErrorNoContext(err) ==
    IF err = Nil THEN FALSE
    ELSE IF ErrorsIs(err, ErrInvalidPostID) \/ ErrorsIs(err, ErrEmptyTitle)
            \/ ErrorsIs(err, ErrMissingAuthorID) \/ ErrorsIs(err, ErrInvalidEventFormat)
        THEN TRUE
    ELSE IF ErrorsIs(err, JSONSyntaxError) \/ ErrorsIs(err, JSONUnmarshalTypeError)
        THEN TRUE
    ELSE FALSE

\* variant: the error itself is compared, its chain is not walked
isPermanentErrorOutermost(err) ==
    IF err = Nil THEN FALSE
    ELSE err[1] \in {ContextCanceled, ContextDeadlineExceeded, ErrInvalidPostID,
                     ErrEmptyTitle, ErrMissingAuthorID, ErrInvalidEventFormat,
                     JSONSyntaxError, JSONUnmarshalTypeError}

\* handler.go isPermanentError
isPermanentError(err) ==
    IF err = Nil THEN FALSE
    ELSE IF ErrorsIs(err, ContextCanceled) \/ ErrorsIs(err, ContextDeadlineExceeded)
        THEN TRUE
    ELSE IF ErrorsIs(err, ErrInvalidPostID) \/ ErrorsIs(err, ErrEmptyTitle)
            \/ ErrorsIs(err, ErrMissingAuthorID) \/ ErrorsIs(err, ErrInvalidEventFormat)
        THEN TRUE
    ELSE IF ErrorsIs(err, JSONSyntaxError) \/ ErrorsIs(err, JSONUnmarshalTypeError)
        THEN TRUE
    ELSE FALSE

\* backoff.Permanent(err): a *PermanentError wrapping err
Permanent(err) == <<PermanentError>> \o err

\* --------------------------------------------------------------- storage
\* The answers Elasticsearch can give to one request made under ctx:
\* a request made under a cancelled context fails with the context's error.
StorageAnswers(cancelled) ==
    IF cancelled THEN {"cancelled"} ELSE {"ok", "unavailable"}

StorageError(answer) ==
    CASE answer = "ok" -> Nil
      [] answer = "unavailable" -> Wrap(<<ESError>>)
      [] answer = "cancelled" -> Wrap(<<ContextCanceled>>)

\* PostRepository.IndexPost: create-or-replace by document ID.
\* response is what the repository saw: "ok", "unavailable" or "cancelled".
IndexPost(st, id, answer) ==
    [err |-> StorageError(answer),
     store |-> IF answer = "ok" THEN st \cup {id} ELSE st,
     response |-> answer]

\* The status Elasticsearch answers to a delete request it has received.
DeleteStatus(st, id) == IF id \in st THEN "200 OK" ELSE "404 Not Found"

\* variant: a 404 answer falls through to res.IsError()
DeletePostNotFoundIsError(st, id, answer) ==
    IF answer # "ok"
    THEN [err |-> StorageError(answer), store |-> st, response |-> answer]
    ELSE IF DeleteStatus(st, id) = "404 Not Found"
    THEN [err |-> Wrap(<<ESError>>), store |-> st, response |-> "not_found"]
    ELSE [err |-> Nil, store |-> st \ {id}, response |-> "ok"]

\* PostRepository.DeletePost: a 404 answer is a success
DeletePost(st, id, answer) ==
    IF answer # "ok"
    THEN [err |-> StorageError(answer), store |-> st, response |-> answer]
    ELSE IF DeleteStatus(st, id) = "404 Not Found"
    THEN [err |-> Nil, store |-> st, response |-> "not_found"]
    ELSE [err |-> Nil, store |-> st \ {id}, response |-> "ok"]

\* ---------------------------------------------------------- EventService
\* The result of a processor: its error, the store after it, and the
\* repository's response ("none" when the repository was not called).
\* variant: the post ID is not validated
HandlePostApprovedEventNoIDCheck(st, event, answer) ==
    IF event.title = "" THEN [err |-> Wrap(<<ErrEmptyTitle>>), store |-> st, response |-> "none"]
    ELSE LET r == IndexPost(st, event.id, answer)
         IN  IF r.err # Nil THEN [err |-> Wrap(r.err), store |-> r.store, response |-> r.response]
             ELSE [err |-> Nil, store |-> r.store, response |-> r.response]

\* variant: the storage error is reported by its text only (no %w)
HandlePostApprovedEventOpaque(st, event, answer) ==
    IF event.id <= 0 THEN [err |-> Wrap(<<ErrInvalidPostID>>), store |-> st, response |-> "none"]
    ELSE IF event.title = "" THEN [err |-> Wrap(<<ErrEmptyTitle>>), store |-> st, response |-> "none"]
    ELSE LET r == IndexPost(st, event.id, answer)
         IN  IF r.err # Nil THEN [err |-> Wrap(Nil), store |-> r.store, response |-> r.response]
             ELSE [err |-> Nil, store |-> r.store, response |-> r.response]

HandlePostApprovedEvent(st, event, answer) ==
    IF event.id <= 0 THEN [err |-> Wrap(<<ErrInvalidPostID>>), store |-> st, response |-> "none"]
    ELSE IF event.title = "" THEN [err |-> Wrap(<<ErrEmptyTitle>>), store |-> st, response |-> "none"]
    ELSE LET r == IndexPost(st, event.id, answer)
         IN  IF r.err # Nil THEN [err |-> Wrap(r.err), store |-> r.store, response |-> r.response]
             ELSE [err |-> Nil, store |-> r.store, response |-> r.response]

\* variant: the post ID is not validated
HandlePostDeleteEventNoIDCheck(st, event, answer) ==
    LET r == DeletePost(st, event.id, answer)
    IN  IF r.err # Nil THEN [err |-> Wrap(r.err), store |-> r.store, response |-> r.response]
        ELSE [err |-> Nil, store |-> r.store, response |-> r.response]

HandlePostDeleteEvent(st, event, answer) ==
    IF event.id <= 0 THEN [err |-> Wrap(<<ErrInvalidPostID>>), store |-> st, response |-> "none"]
    ELSE LET r == DeletePost(st, event.id, answer)
         IN  IF r.err # Nil THEN [err |-> Wrap(r.err), store |-> r.store, response |-> r.response]
             ELSE [err |-> Nil, store |-> r.store, response |-> r.response]

\* --------------------------------------------------------- topic handlers
\* json.Unmarshal(message.Value, &event)
Unmarshal(value) == IF value.valid THEN Nil ELSE <<JSONSyntaxError>>

\* The result of a topic handler: the processor's result and whether the
\* EventService was called (svc).
Handled(r, called) ==
    [err |-> r.err, store |-> r.store, response |-> r.response, svc |-> called]
NotProcessed(err, st) ==
    [err |-> err, store |-> st, response |-> "none", svc |-> FALSE]

\* variant: the json.Unmarshal error is ignored and the zero event processed
handlePostAuditEventIgnoresUnmarshal(st, msg, answer) ==
    Handled(HandlePostApprovedEvent(st, msg.value, answer), TRUE)

handlePostAuditEvent(st, msg, answer) ==
    IF Unmarshal(msg.value) # Nil
    THEN NotProcessed(Permanent(Wrap(Unmarshal(msg.value))), st)
    ELSE Handled(HandlePostApprovedEvent(st, msg.value, answer), TRUE)

\* variant: the operation discriminator is not looked at
handlePostDeleteEventAnyOperation(st, msg, answer) ==
    IF Unmarshal(msg.value) # Nil
    THEN NotProcessed(Permanent(Wrap(Unmarshal(msg.value))), st)
    ELSE Handled(HandlePostDeleteEvent(st, msg.value, answer), TRUE)

handlePostDeleteEvent(st, msg, answer) ==
    IF Unmarshal(msg.value) # Nil
    THEN NotProcessed(Permanent(Wrap(Unmarshal(msg.value))), st)
    ELSE IF msg.value.operation # "delete" THEN NotProcessed(Nil, st)
    ELSE Handled(HandlePostDeleteEvent(st, msg.value, answer), TRUE)

\* Handler.topicToHandler
RegisteredTopics == {AuditTopic, DeleteTopic}

handlerFunc(st, msg, answer) ==
    IF msg.topic = AuditTopic THEN handlePostAuditEvent(st, msg, answer)
    ELSE handlePostDeleteEvent(st, msg, answer)

\* Does this invocation reach the storage call?  (Only then does the
\* storage answer matter.)
CallsStorage(msg) ==
    /\ msg.value.valid
    /\ msg.value.id > 0
    /\ \/ msg.topic = AuditTopic /\ msg.value.title # ""
       \/ msg.topic = DeleteTopic /\ msg.value.operation = "delete"

\* ----------------------------------------------------------- retry policy
\* variant: the closure returns every error as it is (no classification)
retryableOperationUnclassified(err) == err

\* retryableOperation: what the closure hands to backoff.RetryNotify
retryableOperation(err) ==
    IF err # Nil /\ isPermanentError(err) THEN Permanent(err) ELSE err

\* variant: one retry too many (max < tries instead of max <= tries)
NextBackOffOffByOne(tries, max) ==
    IF max = 0 THEN [stop |-> TRUE, numTries |-> tries]
    ELSE IF max < tries THEN [stop |-> TRUE, numTries |-> tries]
    ELSE [stop |-> FALSE, numTries |-> tries + 1]

\* backoff.WithMaxRetries(bo, maxRetry).NextBackOff(): Stop once maxRetry
\* retries were granted; bo itself (MaxElapsedTime = 0) never stops.
NextBackOff(tries, max) ==
    IF max = 0 THEN [stop |-> TRUE, numTries |-> tries]
    ELSE IF max <= tries THEN [stop |-> TRUE, numTries |-> tries]
    ELSE [stop |-> FALSE, numTries |-> tries + 1]

\* backoff.RetryNotify: errors.As(err, &permanent) and return permanent.Err
IsPermanentWrapped(err) == ErrorsIs(err, PermanentError)
PermanentErr(err) ==
    LET i == CHOOSE k \in DOMAIN err :
                 err[k] = PermanentError /\ \A j \in 1..(k - 1) : err[j] # PermanentError
    IN  SubSeq(err, i + 1, Len(err))

\* ------------------------------------------------------------- SendToDLQ
\* strconv.FormatInt(n, 10) for n >= 0: the decimal digits of n
Digits == <<"0", "1", "2", "3", "4", "5", "6", "7", "8", "9">>
RECURSIVE FormatInt(_)
FormatInt(n) ==
    IF n < 10 THEN <<Digits[n + 1]>>
    ELSE FormatInt(n \div 10) \o <<Digits[(n % 10) + 1]>>

\* sarama.ByteEncoder(b): the bytes themselves
ByteEncoder(b) == b

\* variant: the record is built without the original key
DLQMessageNoKey(topic, msg, err) ==
    [topic |-> topic,
     value |-> ByteEncoder(msg.value),
     key |-> ByteEncoder(NilKey),
     dlq_original_topic |-> msg.topic,
     dlq_original_partition |-> FormatInt(msg.partition),
     dlq_original_offset |-> FormatInt(msg.offset),
     dlq_processing_error |-> err,
     dlq_original_key |-> IF msg.key # NilKey THEN msg.key ELSE "absent"]

\* The sarama.ProducerMessage SendToDLQ builds (part_004:387-415); the two
\* wall-clock headers are left out.
DLQMessage(topic, msg, err) ==
    [topic |-> topic,
     value |-> ByteEncoder(msg.value),
     key |-> ByteEncoder(msg.key),
     dlq_original_topic |-> msg.topic,
     dlq_original_partition |-> FormatInt(msg.partition),
     dlq_original_offset |-> FormatInt(msg.offset),
     dlq_processing_error |-> err,
     dlq_original_key |-> IF msg.key # NilKey THEN msg.key ELSE "absent"]

\* SendToDLQ returns before starting a send when the producer or the
\* dead-letter topic is missing (part_004:365-377).
DLQConfigured(producer, topic) == producer /\ topic # ""

\* offsets whose dead-letter record the producer has published
DLQPublished == {o \in Offsets : sendState[o] = "ok"}

\* ------------------------------------------------------------------ Init
\* the goroutines a ConsumerGroup can have launched, one per Start call
StartCalls == 1..MaxStarts

\* No error has been classified.
ClassifyIdle ==
    /\ errIn = Nil
    /\ verdict = "none"

\* An empty index and no event.
DocumentsIdle ==
    /\ esIndex = {}
    /\ now = 0
    /\ redelivered = [id |-> 0, title |-> ""]
    /\ deliveries = 0
    /\ afterFirst = {}

\* Nothing committed (a new group), the session not yet over.
OffsetsIdle ==
    /\ committed = 0
    /\ sessionOver = FALSE

\* Nothing produced, both loops at their range statement.
TopicsIdle ==
    /\ produced = <<>>
    /\ loopPc = [t \in {AuditTopic, DeleteTopic} |-> "range"]
    /\ loopTries = [t \in {AuditTopic, DeleteTopic} |-> 0]
    /\ applied = <<>>
    /\ posts = {}

AsideIdle == ClassifyIdle /\ DocumentsIdle /\ OffsetsIdle /\ TopicsIdle

\* The other partition's ConsumeClaim before its first message.
SiblingIdle ==
    /\ siblingPc = "range"
    /\ siblingMarks = 0

\* State after NewHandler and NewConsumerGroup: ready is an open channel,
\* the WaitGroup is at zero, nothing runs.  (handler.go:87-93, part_004:103-110)
GroupIdle ==
    /\ ready = "open"
    /\ setupCalled = FALSE
    /\ panicked = FALSE
    /\ startCtx = "live"
    /\ cgClosed = FALSE
    /\ starts = 0
    /\ startPc = [k \in StartCalls |-> "none"]
    /\ sup = [k \in StartCalls |-> "none"]
    /\ consumeErr = [k \in StartCalls |-> Nil]
    /\ closePc = "idle"
    /\ closeErr = Nil
    /\ finished = FALSE
    /\ closeRet = Nil

\* State after NewHandler, when Sarama calls ConsumeClaim for the partition.
Init ==
    /\ maxRetry \in 0..MaxRetryLimit
    /\ dlqProducer \in BOOLEAN
    /\ dlqTopic \in {"", DLQTopicName}
    /\ ctxCancelled = FALSE
    /\ delivered = 0
    /\ chanClosed = FALSE
    /\ pulled = 0
    /\ message = NoMessage
    /\ pc = "range"
    /\ numTries = 0
    /\ processErr = Nil
    /\ dlqErr = Nil
    /\ ret = "none"
    /\ store \in SUBSET (PostIDs \ {0})
    /\ marks = [o \in Offsets |-> 0]
    /\ results = <<>>
    /\ notifies = 0
    /\ dlqCalls = 0
    /\ dlqMessage = NoRecord
    /\ sendState = [o \in Offsets |-> "none"]
    /\ partition \in Partitions
    /\ svcCalls = 0
    /\ answers = <<>>
    /\ sendCalls = 0
    /\ SiblingIdle
    /\ GroupIdle
    /\ AsideIdle

\* session.MarkMessage(message, "")
MarkMessage(o) == marks' = [marks EXCEPT ![o] = @ + 1]

\* ----------------------------------------------------------- environment
\* The broker puts the next message of the partition in claim.Messages().
Deliver ==
    /\ ~chanClosed
    /\ delivered < MaxMsgs
    /\ delivered' = delivered + 1
    /\ UNCHANGED <<outside, config, ctxCancelled, chanClosed, pulled, message, pc,
                   numTries, processErr, dlqErr, ret, store, marks, iteration,
                   dlqMessage, sendState>>

\* Sarama closes claim.Messages() (session end or rebalance).
CloseMessages ==
    /\ ~chanClosed
    /\ chanClosed' = TRUE
    /\ UNCHANGED <<outside, config, ctxCancelled, delivered, pulled, message, pc,
                   numTries, processErr, dlqErr, ret, store, marks, iteration,
                   dlqMessage, sendState>>

\* The session context is cancelled.
CancelSession ==
    /\ ~ctxCancelled
    /\ ctxCancelled' = TRUE
    /\ UNCHANGED <<outside, config, channel, pulled, message, pc, numTries, processErr,
                   dlqErr, ret, store, marks, iteration, dlqMessage, sendState>>

\* ---------------------------------------------------------- ConsumeClaim
\* for message := range claim.Messages(): the loop receives the message at
\* the next offset; its topic and payload are whatever was produced.  The
\* retry counter and dead-letter record of the iteration before are gone.
\* (handler.go:168-169)
Pull ==
    /\ pc = "range"
    /\ pulled < delivered
    /\ \E m \in Inbound :
         message' = [offset |-> pulled + 1, partition |-> partition,
                     topic |-> m.topic, value |-> m.value, key |-> m.key]
    /\ pulled' = pulled + 1
    /\ results' = <<>>
    /\ notifies' = 0
    /\ dlqCalls' = 0
    /\ svcCalls' = 0
    /\ answers' = <<>>
    /\ sendCalls' = 0
    /\ dlqMessage' = NoRecord
    /\ numTries' = 0
    /\ pc' = "lookup"
    /\ UNCHANGED <<outside, config, ctxCancelled, channel, processErr, dlqErr, ret, store,
                   marks, sendState>>

\* the range loop ends on the closed, drained channel  (handler.go:269-273)
RangeEnd ==
    /\ pc = "range"
    /\ pulled = delivered
    /\ chanClosed
    /\ pc' = "returned"
    /\ ret' = "nil"
    /\ UNCHANGED <<outside, config, ctxCancelled, channel, pulled, message, numTries,
                   processErr, dlqErr, store, marks, iteration, dlqMessage,
                   sendState>>

\* variant: a topic without a handler counts as a failed message
SkipUnknownTopicAsFailure ==
    /\ pc = "lookup"
    /\ message.topic \notin RegisteredTopics
    /\ processErr' = <<ErrInvalidEventFormat>>
    /\ pc' = "processed"
    /\ UNCHANGED <<outside, config, ctxCancelled, channel, pulled, message, numTries,
                   dlqErr, ret, store, marks, iteration, dlqMessage, sendState>>

\* no handler registered for the topic: mark and continue  (handler.go:183-194)
SkipUnknownTopic ==
    /\ pc = "lookup"
    /\ message.topic \notin RegisteredTopics
    /\ MarkMessage(offset)
    /\ pc' = "range"
    /\ UNCHANGED <<outside, config, ctxCancelled, channel, pulled, message, numTries,
                   processErr, dlqErr, ret, store, iteration, dlqMessage,
                   sendState>>

\* a handler is registered: enter processWithRetry  (handler.go:199-200, 288-347)
StartProcessing ==
    /\ pc = "lookup"
    /\ message.topic \in RegisteredTopics
    /\ numTries' = 0
    /\ processErr' = Nil
    /\ dlqErr' = Nil
    /\ pc' = "operation"
    /\ UNCHANGED <<outside, config, ctxCancelled, channel, pulled, message, ret, store,
                   marks, iteration, dlqMessage, sendState>>

\* variant: notify is called before the executor asks for the next backoff
OperationNotifiesLast ==
    /\ pc = "operation"
    /\ \E answer \in StorageAnswers(ctxCancelled) :
         LET r == handlerFunc(store, message, answer)
             err == retryableOperation(r.err)
             nb == NextBackOff(numTries, maxRetry)
         IN  /\ store' = r.store
             /\ results' = Append(results, r.err)
             /\ svcCalls' = IF r.svc THEN svcCalls + 1 ELSE svcCalls
             /\ answers' = Append(answers, r.response)
             /\ IF err = Nil
                THEN /\ processErr' = Nil
                     /\ pc' = "processed"
                     /\ UNCHANGED <<numTries, notifies>>
                ELSE IF IsPermanentWrapped(err)
                THEN /\ processErr' = PermanentErr(err)
                     /\ pc' = "processed"
                     /\ UNCHANGED <<numTries, notifies>>
                ELSE IF nb.stop
                THEN /\ processErr' = err
                     /\ pc' = "processed"
                     /\ notifies' = notifies + 1
                     /\ UNCHANGED numTries
                ELSE /\ numTries' = nb.numTries
                     /\ notifies' = notifies + 1
                     /\ pc' = "backoff"
                     /\ UNCHANGED processErr
    /\ UNCHANGED <<outside, config, ctxCancelled, channel, pulled, message, dlqErr, ret,
                   marks, dlqCalls, sendCalls, dlqMessage, sendState>>

\* One round of backoff.RetryNotify: call retryableOperation, then return
\* (success, permanent error, retries exhausted) or notify and start the
\* backoff timer.  (handler.go:302-347)
Operation ==
    /\ pc = "operation"
    /\ \E answer \in StorageAnswers(ctxCancelled) :
         LET r == handlerFunc(store, message, answer)
             err == retryableOperation(r.err)
             nb == NextBackOff(numTries, maxRetry)
         IN  /\ store' = r.store
             /\ results' = Append(results, r.err)
             /\ svcCalls' = IF r.svc THEN svcCalls + 1 ELSE svcCalls
             /\ answers' = Append(answers, r.response)
             /\ IF err = Nil
                THEN /\ processErr' = Nil
                     /\ pc' = "processed"
                     /\ UNCHANGED <<numTries, notifies>>
                ELSE IF IsPermanentWrapped(err)
                THEN /\ processErr' = PermanentErr(err)
                     /\ pc' = "processed"
                     /\ UNCHANGED <<numTries, notifies>>
                ELSE IF nb.stop
                THEN /\ processErr' = err
                     /\ pc' = "processed"
                     /\ UNCHANGED <<numTries, notifies>>
                ELSE /\ numTries' = nb.numTries
                     /\ notifies' = notifies + 1
                     /\ pc' = "backoff"
                     /\ UNCHANGED processErr
    /\ UNCHANGED <<outside, config, ctxCancelled, channel, pulled, message, dlqErr, ret,
                   marks, dlqCalls, sendCalls, dlqMessage, sendState>>

\* variant: the loop gives the message up during its backoff and goes on
BackoffElapsedAdvance ==
    /\ pc = "backoff"
    /\ pc' = "range"
    /\ UNCHANGED <<outside, config, ctxCancelled, channel, pulled, message, numTries,
                   processErr, dlqErr, ret, store, marks, iteration, dlqMessage,
                   sendState>>

\* The backoff timer fires and RetryNotify loops.  The BackOff handed to
\* RetryNotify carries no context (bo is not wrapped by backoff.WithContext),
\* so the select's ctx.Done() arm is that of context.Background() and only
\* the timer ends the wait.  (handler.go:288, 347)
BackoffElapsed ==
    /\ pc = "backoff"
    /\ pc' = "operation"
    /\ UNCHANGED <<outside, config, ctxCancelled, channel, pulled, message, numTries,
                   processErr, dlqErr, ret, store, marks, iteration, dlqMessage,
                   sendState>>

\* variant: the success branch forgets session.MarkMessage
MarkProcessedNoMark ==
    /\ pc = "processed"
    /\ processErr = Nil
    /\ pc' = "ctxCheck"
    /\ UNCHANGED <<outside, config, ctxCancelled, channel, pulled, message, numTries,
                   processErr, dlqErr, ret, store, marks, iteration, dlqMessage,
                   sendState>>

\* processErr == nil: mark the message  (handler.go:244-252)
MarkProcessed ==
    /\ pc = "processed"
    /\ processErr = Nil
    /\ MarkMessage(offset)
    /\ pc' = "ctxCheck"
    /\ UNCHANGED <<outside, config, ctxCancelled, channel, pulled, message, numTries,
                   processErr, dlqErr, ret, store, iteration, dlqMessage,
                   sendState>>

\* variant: a failed dead-letter forward stops the claim with the message unmarked
SendToDLQRejectedBlocks ==
    /\ pc = "processed"
    /\ processErr # Nil
    /\ ~DLQConfigured(dlqProducer, dlqTopic)
    /\ dlqCalls' = dlqCalls + 1
    /\ dlqErr' = <<DLQNotConfigured>>
    /\ pc' = "returned"
    /\ ret' = "dlqErr"
    /\ UNCHANGED <<outside, config, ctxCancelled, channel, pulled, message, numTries,
                   processErr, store, marks, results, notifies, svcCalls,
                   answers, sendCalls, dlqMessage, sendState>>

\* processErr != nil and SendToDLQ refuses: the producer or the dead-letter
\* topic is not configured; the message is marked all the same.
\* (handler.go:203-233, part_004:365-377)
SendToDLQRejected ==
    /\ pc = "processed"
    /\ processErr # Nil
    /\ ~DLQConfigured(dlqProducer, dlqTopic)
    /\ dlqCalls' = dlqCalls + 1
    /\ dlqErr' = <<DLQNotConfigured>>
    /\ MarkMessage(offset)
    /\ pc' = "ctxCheck"
    /\ UNCHANGED <<outside, config, ctxCancelled, channel, pulled, message, numTries,
                   processErr, ret, store, results, notifies, svcCalls,
                   answers, sendCalls, dlqMessage, sendState>>

\* variant: dlqCtx is derived from session.Context(), so under a cancelled
\* session the select returns the cancellation at once
SendToDLQStartUnderSession ==
    /\ pc = "processed"
    /\ processErr # Nil
    /\ DLQConfigured(dlqProducer, dlqTopic)
    /\ dlqCalls' = dlqCalls + 1
    /\ dlqMessage' = <<DLQMessage(dlqTopic, message, processErr)>>
    /\ sendState' = [sendState EXCEPT ![offset] = "sending"]
    /\ sendCalls' = sendCalls + 1
    /\ IF ctxCancelled
       THEN /\ dlqErr' = Wrap(<<ContextCanceled>>)
            /\ MarkMessage(offset)
            /\ pc' = "ctxCheck"
       ELSE /\ pc' = "dlqSelect"
            /\ UNCHANGED <<dlqErr, marks>>
    /\ UNCHANGED <<outside, config, ctxCancelled, channel, pulled, message, numTries,
                   processErr, ret, store, results, notifies, svcCalls,
                   answers>>

\* processErr != nil: SendToDLQ builds the record, starts the goroutine that
\* calls producer.SendMessage and waits in its select.
\* (handler.go:203-217, part_004:387-437)
SendToDLQStart ==
    /\ pc = "processed"
    /\ processErr # Nil
    /\ DLQConfigured(dlqProducer, dlqTopic)
    /\ dlqCalls' = dlqCalls + 1
    /\ dlqMessage' = <<DLQMessage(dlqTopic, message, processErr)>>
    /\ sendState' = [sendState EXCEPT ![offset] = "sending"]
    /\ sendCalls' = sendCalls + 1
    /\ pc' = "dlqSelect"
    /\ UNCHANGED <<outside, config, ctxCancelled, channel, pulled, message, numTries,
                   processErr, dlqErr, ret, store, marks, results, notifies,
                   svcCalls, answers>>

\* variant: sendResultChan has no buffer, the goroutine hands its result over
\* only while SendToDLQ still waits in its select
SendMessageReturnsUnbuffered ==
    \E o \in Offsets, ok \in BOOLEAN :
        /\ sendState[o] = "sending"
        /\ pc = "dlqSelect"
        /\ offset = o
        /\ sendState' = [sendState EXCEPT ![o] = IF ok THEN "ok" ELSE "failed"]
        /\ UNCHANGED <<outside, config, ctxCancelled, channel, pulled, message, pc,
                       numTries, processErr, dlqErr, ret, store, marks,
                       iteration, dlqMessage>>

\* The goroutine: producer.SendMessage returns and its result is put in the
\* buffered sendResultChan.  (part_004:428-435)
SendMessageReturns ==
    \E o \in Offsets, ok \in BOOLEAN :
        /\ sendState[o] = "sending"
        /\ sendState' = [sendState EXCEPT ![o] = IF ok THEN "ok" ELSE "failed"]
        /\ UNCHANGED <<outside, config, ctxCancelled, channel, pulled, message, pc,
                       numTries, processErr, dlqErr, ret, store, marks,
                       iteration, dlqMessage>>

\* variant: ConsumeClaim calls SendToDLQ again after a failed publish
DLQSelectResultRetries ==
    /\ pc = "dlqSelect"
    /\ sendState[offset] \in {"ok", "failed"}
    /\ dlqErr' = IF sendState[offset] = "ok" THEN Nil ELSE Wrap(<<ProducerError>>)
    /\ IF sendState[offset] = "ok"
       THEN MarkMessage(offset) /\ pc' = "ctxCheck"
       ELSE marks' = marks /\ pc' = "processed"
    /\ UNCHANGED <<outside, config, ctxCancelled, channel, pulled, message, numTries,
                   processErr, ret, store, iteration, dlqMessage, sendState>>

\* variant: a failed publish is sent again until it succeeds, the message
\* staying unmarked meanwhile
DLQSelectResultResends ==
    /\ pc = "dlqSelect"
    /\ sendState[offset] \in {"ok", "failed"}
    /\ IF sendState[offset] = "ok"
       THEN /\ dlqErr' = Nil
            /\ MarkMessage(offset)
            /\ pc' = "ctxCheck"
            /\ UNCHANGED sendState
       ELSE /\ sendState' = [sendState EXCEPT ![offset] = "sending"]
            /\ UNCHANGED <<dlqErr, marks, pc>>
    /\ UNCHANGED <<outside, config, ctxCancelled, channel, pulled, message, numTries,
                   processErr, ret, store, iteration, dlqMessage>>

\* select: the send result arrives; SendToDLQ returns it and ConsumeClaim
\* marks the message.  (part_004:438-455, handler.go:219-243)
DLQSelectResult ==
    /\ pc = "dlqSelect"
    /\ sendState[offset] \in {"ok", "failed"}
    /\ dlqErr' = IF sendState[offset] = "ok" THEN Nil ELSE Wrap(<<ProducerError>>)
    /\ MarkMessage(offset)
    /\ pc' = "ctxCheck"
    /\ UNCHANGED <<outside, config, ctxCancelled, channel, pulled, message, numTries,
                   processErr, ret, store, iteration, dlqMessage, sendState>>

\* variant: the message is left unmarked when the dead-letter forward times out
DLQSelectTimeoutNoMark ==
    /\ pc = "dlqSelect"
    /\ dlqErr' = Wrap(<<ContextDeadlineExceeded>>)
    /\ pc' = "ctxCheck"
    /\ UNCHANGED <<outside, config, ctxCancelled, channel, pulled, message, numTries,
                   processErr, ret, store, marks, iteration, dlqMessage,
                   sendState>>

\* variant: SendToDLQ receives from sendResultChan without a ctx.Done() arm
DLQSelectNoDeadline ==
    /\ pc = "dlqSelect"
    /\ sendState[offset] \in {"ok", "failed"}
    /\ dlqErr' = Wrap(<<ContextDeadlineExceeded>>)
    /\ MarkMessage(offset)
    /\ pc' = "ctxCheck"
    /\ UNCHANGED <<outside, config, ctxCancelled, channel, pulled, message, numTries,
                   processErr, ret, store, iteration, dlqMessage, sendState>>

\* select: dlqCtx (10 s, derived from context.Background()) is done first;
\* SendToDLQ returns the deadline error, the goroutine is left running.
\* (part_004:456-466, handler.go:215-233)
DLQSelectTimeout ==
    /\ pc = "dlqSelect"
    /\ dlqErr' = Wrap(<<ContextDeadlineExceeded>>)
    /\ MarkMessage(offset)
    /\ pc' = "ctxCheck"
    /\ UNCHANGED <<outside, config, ctxCancelled, channel, pulled, message, numTries,
                   processErr, ret, store, iteration, dlqMessage, sendState>>

\* variant: the processing error is returned from ConsumeClaim
ContextCheckPropagates ==
    /\ pc = "ctxCheck"
    /\ IF processErr # Nil
       THEN pc' = "returned" /\ ret' = "processErr"
       ELSE IF ctxCancelled
       THEN pc' = "returned" /\ ret' = "ctxErr"
       ELSE pc' = "range" /\ ret' = ret
    /\ UNCHANGED <<outside, config, ctxCancelled, channel, pulled, message, numTries,
                   processErr, dlqErr, store, marks, iteration, dlqMessage,
                   sendState>>

\* if session.Context().Err() != nil { return session.Context().Err() }
\* (handler.go:256-264)
ContextCheck ==
    /\ pc = "ctxCheck"
    /\ IF ctxCancelled
       THEN pc' = "returned" /\ ret' = "ctxErr"
       ELSE pc' = "range" /\ ret' = ret
    /\ UNCHANGED <<outside, config, ctxCancelled, channel, pulled, message, numTries,
                   processErr, dlqErr, store, marks, iteration, dlqMessage,
                   sendState>>

Next ==
    \/ Deliver
    \/ CloseMessages
    \/ CancelSession
    \/ Pull
    \/ RangeEnd
    \/ SkipUnknownTopic
    \/ StartProcessing
    \/ Operation
    \/ BackoffElapsed
    \/ MarkProcessed
    \/ SendToDLQRejected
    \/ SendToDLQStart
    \/ SendMessageReturns
    \/ DLQSelectResult
    \/ DLQSelectTimeout
    \/ ContextCheck

Spec == Init /\ [][Next]_vars

\* The steps of the claim loop: each is taken once it can be (the goroutine
\* running ConsumeClaim is scheduled, every processor invocation returns and
\* every timer fires).
LoopStep ==
    \/ Pull
    \/ RangeEnd
    \/ SkipUnknownTopic
    \/ StartProcessing
    \/ Operation
    \/ BackoffElapsed
    \/ MarkProcessed
    \/ SendToDLQRejected
    \/ SendToDLQStart
    \/ DLQSelectResult
    \/ DLQSelectTimeout
    \/ ContextCheck

FairSpec == Spec /\ WF_vars(LoopStep) /\ WF_vars(SendMessageReturns)

\* The same without any promise about the producer: SendMessage may never
\* return, the loop's steps and timers are still taken.
TimerFairSpec == Spec /\ WF_vars(LoopStep)

TypeOK ==
    /\ maxRetry \in 0..MaxRetryLimit
    /\ delivered \in 0..MaxMsgs
    /\ pulled \in 0..delivered
    /\ offset \in 0..pulled
    /\ pc \in {"range", "lookup", "operation", "backoff", "processed",
               "dlqSelect", "ctxCheck", "returned"}
    /\ ret \in {"none", "nil", "ctxErr"}
    /\ numTries \in 0..maxRetry
    /\ store \subseteq PostIDs

\* ------------------------------------------------- two partitions at once
\* Sarama runs ConsumeClaim in one goroutine per claimed partition, all on the
\* same Handler and session.  The second loop is kept to its positions: it
\* receives a message, processes it, marks it and looks at the session's
\* context.  It reads the Handler's fields, which nothing writes after
\* NewHandler, and takes no lock: the Handler has none.

\* variant: the Handler holds a lock over each iteration of a loop
SiblingPullLocked ==
    /\ siblingPc = "range"
    /\ siblingMarks < MaxMsgs
    /\ pc \in {"range", "ctxCheck", "returned"}
    /\ siblingPc' = "processing"
    /\ UNCHANGED <<claim, siblingMarks, group, aside>>

\* for message := range claim.Messages() in the other partition's loop
\* (handler.go:168-169)
SiblingPull ==
    /\ siblingPc = "range"
    /\ siblingMarks < MaxMsgs
    /\ siblingPc' = "processing"
    /\ UNCHANGED <<claim, siblingMarks, group, aside>>

\* the other loop's processing ends, it marks the message and checks the
\* session's context  (handler.go:205-266)
SiblingProcessed ==
    /\ siblingPc = "processing"
    /\ siblingMarks' = siblingMarks + 1
    /\ siblingPc' = IF ctxCancelled THEN "returned" ELSE "range"
    /\ UNCHANGED <<claim, group, aside>>

\* One Handler configuration, with and without a dead-letter producer.
ClaimsInit ==
    /\ Init
    /\ maxRetry = 1
    /\ dlqTopic = DLQTopicName
    /\ store = {}

\* The claim loop of that one Handler under FairSpec's promises: the loop's
\* steps are taken and the producer answers.
ForwardFairSpec ==
    /\ ClaimsInit
    /\ [][Next]_vars
    /\ WF_vars(LoopStep)
    /\ WF_vars(SendMessageReturns)

ClaimsNext ==
    \/ Next
    \/ SiblingPull
    \/ SiblingProcessed

ClaimsSpec == ClaimsInit /\ [][ClaimsNext]_vars

\* ------------------------------------------------------------ properties
\* positions of ConsumeClaim
Processing == {"lookup", "operation", "backoff", "processed", "dlqSelect"}
IterationDone == {"ctxCheck", "range", "returned"}

\* an error the retry executor does not retry
PermanentFailure(err) == err # Nil /\ (IsPermanentWrapped(err) \/ isPermanentError(err))
TransientFailure(err) == err # Nil /\ ~PermanentFailure(err)
AllTransient == results # <<>> /\ \A i \in DOMAIN results : TransientFailure(results[i])

\* C1: every pulled message is marked exactly once: not before its processing
\* has reached its terminal decision (skip, success, dead-letter forward
\* returned), once when its iteration is over, and never twice.
C1_MarkedExactlyOnce ==
    \A o \in Offsets :
        /\ marks[o] <= 1
        /\ o > pulled => marks[o] = 0
        /\ (o = offset /\ pc \in Processing) => marks[o] = 0
        /\ (o < offset \/ (o = offset /\ pc \in IterationDone)) => marks[o] = 1
        /\ (o = offset /\ marks[o] = 1 /\ message.topic \in RegisteredTopics) =>
               /\ results # <<>>
               /\ (processErr = Nil /\ dlqCalls = 0) \/ (processErr # Nil /\ dlqCalls = 1)

\* a second message was marked after its dead-letter forward failed
C1_Witness ==
    /\ offset >= 2
    /\ marks[1] = 1 /\ marks[offset] = 1
    /\ processErr # Nil /\ dlqErr # Nil
    /\ pc = "ctxCheck"

\* C2: while the message at an offset is in the loop, every earlier offset is
\* marked and no later offset has been touched; a message waiting for its next
\* retry keeps its place (the loop pulls nothing and keeps the message).
C2_State ==
    pc \in Processing =>
        /\ offset = pulled
        /\ \A o \in Offsets : (o < offset => marks[o] = 1) /\ (o > offset => marks[o] = 0)
C2_KeepsPlace ==
    pc \in {"operation", "backoff"} => (pulled' = pulled /\ message' = message)
\* C2: earlier offsets are marked before a message is in the loop, and a
\* message being retried keeps its place.
C2_PartitionOrder == []C2_State /\ [][C2_KeepsPlace]_vars

\* the first message is waiting for a retry while the second is in the channel
C2_Witness ==
    /\ pc = "backoff"
    /\ offset = 1
    /\ delivered > pulled
    /\ marks[1] = 0 /\ marks[2] = 0

\* C3: a permanent failure at the first invocation: one invocation, and one
\* SendToDLQ call once the failure is handled.
C3_PermanentOnce ==
    (results # <<>> /\ PermanentFailure(results[1])) =>
        /\ Len(results) = 1
        /\ notifies = 0
        /\ pc \notin {"operation", "backoff"}
        /\ processErr # Nil
        /\ IF pc = "processed" THEN dlqCalls = 0 ELSE dlqCalls = 1

C3_Witness ==
    /\ maxRetry >= 1
    /\ pc = "ctxCheck"
    /\ results # <<>> /\ PermanentFailure(results[1])
    /\ dlqCalls = 1

\* C4 as stated: at most maxRetry invocations, exactly maxRetry when every
\* invocation fails transiently (stated for a configuration that retries).
C4_AtMostMaxRetry ==
    (maxRetry >= 1 /\ AllTransient) =>
        /\ Len(results) <= maxRetry
        /\ pc \in {"processed", "dlqSelect"} \cup IterationDone => Len(results) = maxRetry

\* C4 amended: the first invocation plus maxRetry retries; when every
\* invocation fails transiently exactly maxRetry + 1 invocations, then one
\* SendToDLQ call, then the mark.
C4_MaxRetryPlusOne ==
    /\ Len(results) <= maxRetry + 1
    /\ AllTransient =>
        /\ pc \in {"processed", "dlqSelect"} \cup IterationDone =>
               Len(results) = maxRetry + 1 /\ processErr = results[Len(results)]
        /\ IF pc \in {"operation", "backoff", "processed"} THEN dlqCalls = 0 ELSE dlqCalls = 1
        /\ pc \in IterationDone => marks[offset] = 1

C4_Witness ==
    /\ maxRetry >= 2
    /\ AllTransient
    /\ Len(results) = maxRetry + 1
    /\ dlqCalls = 1
    /\ marks[offset] = 1

\* C5: a success ends the processing at that invocation: it is the last
\* invocation, no SendToDLQ call is made, and the message is marked.
C5_SuccessNoDLQ ==
    \A i \in DOMAIN results :
        results[i] = Nil =>
            /\ i = Len(results)
            /\ \A j \in 1..(i - 1) : TransientFailure(results[j])
            /\ processErr = Nil
            /\ dlqCalls = 0
            /\ pc \in {"processed"} \cup IterationDone
            /\ pc \in IterationDone => marks[offset] = 1

\* transient, transient, success
C5_Witness ==
    /\ Len(results) = 3
    /\ results[1] # Nil /\ results[2] # Nil /\ results[3] = Nil
    /\ dlqCalls = 0
    /\ marks[offset] = 1

\* C6: when SendToDLQ returns an error the message is marked in that same
\* step and the loop is at its context check; from there it goes back to the
\* range (and returns nothing) unless the session context is cancelled.
C6_ForwardFailed ==
    (pc \in {"processed", "dlqSelect"} /\ pc' # pc /\ dlqErr' # Nil) =>
        (pc' = "ctxCheck" /\ marks'[offset] = marks[offset] + 1 /\ ret' = "none")
C6_GoesOn ==
    (pc = "ctxCheck" /\ dlqErr # Nil /\ ~ctxCancelled /\ pc' # pc) =>
        (pc' = "range" /\ ret' = "none")
\* C6: a failed dead-letter forward still marks the message and the loop
\* goes on.
C6_DLQFailureStillMarks == [][C6_ForwardFailed /\ C6_GoesOn]_vars

\* the next message was pulled after a failed dead-letter forward
C6_Witness ==
    /\ pc = "lookup"
    /\ offset >= 2
    /\ dlqErr # Nil
    /\ marks[offset - 1] = 1

\* C7: every message the loop has pulled eventually ends its iteration,
\* marked.
C7_EventuallyMarked ==
    (pc \in Processing) ~> (pc \in IterationDone /\ offset \in Offsets /\ marks[offset] = 1)

\* a message marked after it used up its retries
C7_Witness ==
    /\ maxRetry >= 1
    /\ Len(results) = maxRetry + 1
    /\ processErr # Nil
    /\ marks[offset] = 1

\* C8: ConsumeClaim returns nil (on the closed, drained channel) or the
\* session context's error (the context being cancelled), nothing else.
C8_ReturnValues ==
    /\ ret \in {"none", "nil", "ctxErr"}
    /\ pc = "returned" <=> ret # "none"
    /\ ret = "nil" => (chanClosed /\ pulled = delivered)
    /\ ret = "ctxErr" => ctxCancelled

\* returned the cancellation after a processing error and a dead-letter error
C8_Witness ==
    /\ pc = "returned"
    /\ ret = "ctxErr"
    /\ processErr # Nil
    /\ dlqErr # Nil

\* C9 as stated: a message marked under a cancelled context is followed by
\* the context check (not by the next receive), and the check of a cancelled
\* context returns the cancellation error.
C9_CheckFollowsMark == (ctxCancelled /\ marks' # marks) => pc' = "ctxCheck"
C9_CheckReturns ==
    (pc = "ctxCheck" /\ ctxCancelled /\ pc' # pc) =>
        (pc' = "returned" /\ ret' = "ctxErr" /\ pulled' = pulled)
\* C9: the context check follows every mark and returns the cancellation.
C9_CheckAfterEveryMessage == [][C9_CheckFollowsMark /\ C9_CheckReturns]_vars

\* C10 as stated: a cancellation during the backoff wait ends the wait with
\* the cancellation error and without another invocation.
C10_WaitAborted ==
    (pc = "backoff" /\ ctxCancelled /\ pc' # pc) =>
        (pc' = "processed" /\ ErrorsIs(processErr', ContextCanceled) /\ results' = results)
\* C10: a cancellation during the backoff wait aborts the wait.
C10_CancelAbortsBackoff == [][C10_WaitAborted]_vars

\* ========================================================= ConsumerGroup
\* The claim loop before ConsumeClaim is called, with one configuration.
ClaimIdle ==
    /\ maxRetry = 0
    /\ dlqProducer = FALSE
    /\ dlqTopic = ""
    /\ partition \in Partitions
    /\ ctxCancelled = FALSE
    /\ delivered = 0
    /\ chanClosed = FALSE
    /\ pulled = 0
    /\ message = NoMessage
    /\ pc = "range"
    /\ numTries = 0
    /\ processErr = Nil
    /\ dlqErr = Nil
    /\ ret = "none"
    /\ store = {}
    /\ marks = [o \in Offsets |-> 0]
    /\ results = <<>>
    /\ notifies = 0
    /\ dlqCalls = 0
    /\ dlqMessage = NoRecord
    /\ sendState = [o \in Offsets |-> "none"]
    /\ svcCalls = 0
    /\ answers = <<>>
    /\ sendCalls = 0

GroupInit == ClaimIdle /\ SiblingIdle /\ GroupIdle /\ AsideIdle

\* ctx.Err() != nil / <-ctx.Done() is ready
StartCtxDone == startCtx # "live"

\* the goroutines that have not reached their deferred c.wg.Done()
Supervising == {k \in StartCalls : sup[k] \notin {"none", "exited"}}
\* the Consume calls that have not returned
InConsume == {k \in StartCalls : sup[k] \in {"consume", "session", "released"}}
\* sync.WaitGroup counter
wg == Cardinality(Supervising)

\* The caller's context is cancelled or passes its deadline.
CancelStart ==
    /\ startCtx = "live"
    /\ startCtx' \in {ContextCanceled, ContextDeadlineExceeded}
    /\ UNCHANGED <<claim, sibling, aside, consumeErr, ready, setupCalled, panicked, cgClosed,
                   starts, startPc, sup, closePc, closeErr, finished, closeRet>>

\* variant: Start launches nothing when a goroutine is already supervising
StartOnce ==
    /\ starts < MaxStarts
    /\ \A k \in StartCalls : startPc[k] # "waiting"
    /\ starts' = starts + 1
    /\ sup' = [sup EXCEPT ![starts + 1] = IF Supervising = {} THEN "consume" ELSE "none"]
    /\ startPc' = [startPc EXCEPT ![starts + 1] = "waiting"]
    /\ UNCHANGED <<claim, sibling, aside, consumeErr, ready, setupCalled, panicked, startCtx,
                   cgClosed, closePc, closeErr, finished, closeRet>>

\* Start: c.wg.Add(1), launch the supervising goroutine, then wait in the
\* select on handler.Ready() and ctx.Done().  (part_004:118-127, 190-193)
\* Start has one caller (main): a call begins when the one before returned.
Start ==
    /\ starts < MaxStarts
    /\ \A k \in StartCalls : startPc[k] # "waiting"
    /\ starts' = starts + 1
    /\ sup' = [sup EXCEPT ![starts + 1] = "consume"]
    /\ startPc' = [startPc EXCEPT ![starts + 1] = "waiting"]
    /\ UNCHANGED <<claim, sibling, aside, consumeErr, ready, setupCalled, panicked, startCtx,
                   cgClosed, closePc, closeErr, finished, closeRet>>

\* Start's select: the ready channel is closed or ctx is done.
\* (part_004:193-208)
StartReturns(k) ==
    /\ startPc[k] = "waiting"
    /\ ready = "closed" \/ StartCtxDone
    /\ startPc' = [startPc EXCEPT ![k] = "returned"]
    /\ UNCHANGED <<claim, sibling, aside, consumeErr, ready, setupCalled, panicked, startCtx,
                   cgClosed, starts, sup, closePc, closeErr, finished, closeRet>>

\* variant: Setup closes the ready channel without looking at it
SetupClosesAgain(k) ==
    /\ sup[k] = "consume"
    /\ \A j \in StartCalls : sup[j] # "session"
    /\ ~cgClosed
    /\ sup' = [sup EXCEPT ![k] = "session"]
    /\ setupCalled' = TRUE
    /\ ready' = "closed"
    /\ panicked' = (panicked \/ ready = "closed")
    /\ UNCHANGED <<claim, sibling, aside, consumeErr, startCtx, cgClosed, starts, startPc, closePc,
                   closeErr, finished, closeRet>>

\* Within Consume a session begins and Sarama calls Handler.Setup: the
\* select closes ready unless it is closed already.  One session at a time:
\* Consume holds the group client's lock.  (handler.go:117-135)
Setup(k) ==
    /\ sup[k] = "consume"
    /\ \A j \in StartCalls : sup[j] # "session"
    /\ ~cgClosed
    /\ sup' = [sup EXCEPT ![k] = "session"]
    /\ setupCalled' = TRUE
    /\ ready' = "closed"
    /\ UNCHANGED <<claim, sibling, aside, consumeErr, panicked, startCtx, cgClosed, starts,
                   startPc, closePc, closeErr, finished, closeRet>>

\* The session ends (rebalance, cancellation, close) and Sarama calls
\* Handler.Cleanup, which touches nothing.  (handler.go:139-148)
Cleanup(k) ==
    /\ sup[k] = "session"
    /\ sup' = [sup EXCEPT ![k] = "released"]
    /\ UNCHANGED <<claim, sibling, aside, consumeErr, ready, setupCalled, panicked, startCtx,
                   cgClosed, starts, startPc, closePc, closeErr, finished,
                   closeRet>>

\* What c.cg.Consume can return: nil after a session, the closed-group error
\* once the client is closed, the context's error once it is done, or some
\* other error.
ConsumeResults(k) ==
    (IF sup[k] = "released" THEN {Nil} ELSE {})
    \cup (IF cgClosed THEN {<<ErrClosedConsumerGroup>>} ELSE {})
    \cup (IF StartCtxDone THEN {<<startCtx>>} ELSE {})
    \cup {<<ConsumeError>>}

\* errors.Is(err, sarama.ErrClosedConsumerGroup) || errors.Is(err,
\* context.Canceled) || errors.Is(err, context.DeadlineExceeded)
CleanStop(err) ==
    \/ ErrorsIs(err, ErrClosedConsumerGroup)
    \/ ErrorsIs(err, ContextCanceled)
    \/ ErrorsIs(err, ContextDeadlineExceeded)

\* variant: a return of Consume without error ends the goroutine
AfterConsumeStopsOnNil(err) ==
    IF err # Nil
    THEN IF CleanStop(err) THEN "exited" ELSE "delay"
    ELSE "exited"

\* variant: a closed group is retried like any other error
AfterConsumeRetriesClosed(err) ==
    IF err # Nil
    THEN IF ErrorsIs(err, ContextCanceled) \/ ErrorsIs(err, ContextDeadlineExceeded)
         THEN "exited" ELSE "delay"
    ELSE "ctxCheck"

\* variant: every error of Consume ends the goroutine
AfterConsumeStopsOnError(err) ==
    IF err # Nil THEN "exited" ELSE "ctxCheck"

\* where the loop body goes with Consume's result  (part_004:136-166)
AfterConsume(err) ==
    IF err # Nil
    THEN IF CleanStop(err) THEN "exited" ELSE "delay"
    ELSE "ctxCheck"

\* c.cg.Consume returns and the loop body looks at its error.
Consume(k) ==
    /\ sup[k] \in {"consume", "released"}
    /\ \E err \in ConsumeResults(k) :
          /\ consumeErr' = [consumeErr EXCEPT ![k] = err]
          /\ sup' = [sup EXCEPT ![k] = AfterConsume(err)]
    /\ UNCHANGED <<claim, sibling, aside, ready, setupCalled, panicked, startCtx,
                   cgClosed, starts, startPc, closePc, closeErr, finished,
                   closeRet>>

\* select: <-ctx.Done() during the retry delay  (part_004:160-166)
DelayCancelled(k) ==
    /\ sup[k] = "delay"
    /\ StartCtxDone
    /\ sup' = [sup EXCEPT ![k] = "exited"]
    /\ UNCHANGED <<claim, sibling, aside, consumeErr, ready, setupCalled, panicked, startCtx,
                   cgClosed, starts, startPc, closePc, closeErr, finished,
                   closeRet>>

\* select: <-time.After(5 * time.Second)  (part_004:158-159)
DelayElapsed(k) ==
    /\ sup[k] = "delay"
    /\ sup' = [sup EXCEPT ![k] = "ctxCheck"]
    /\ UNCHANGED <<claim, sibling, aside, consumeErr, ready, setupCalled, panicked, startCtx,
                   cgClosed, starts, startPc, closePc, closeErr, finished,
                   closeRet>>

\* variant: the loop goes round without looking at ctx.Err()
RejoinUnchecked(k) ==
    /\ sup[k] = "ctxCheck"
    /\ sup' = [sup EXCEPT ![k] = "consume"]
    /\ consumeErr' = [consumeErr EXCEPT ![k] = Nil]
    /\ UNCHANGED <<claim, sibling, aside, ready, setupCalled, panicked, startCtx,
                   cgClosed, starts, startPc, closePc, closeErr, finished,
                   closeRet>>

\* if ctx.Err() != nil { return }, else the loop calls Consume again; err
\* of line 136 belongs to one iteration.  (part_004:173-180)
Rejoin(k) ==
    /\ sup[k] = "ctxCheck"
    /\ sup' = [sup EXCEPT ![k] = IF StartCtxDone THEN "exited" ELSE "consume"]
    /\ consumeErr' = [consumeErr EXCEPT ![k] = IF StartCtxDone THEN @ ELSE Nil]
    /\ UNCHANGED <<claim, sibling, aside, ready, setupCalled, panicked, startCtx,
                   cgClosed, starts, startPc, closePc, closeErr, finished,
                   closeRet>>

\* Close calls c.cg.Close(); from the call on the client counts as closed.
\* (part_004:220-228)
Close ==
    /\ closePc \in {"idle", "returned", "timedOut"}
    /\ closePc' = "cgClose"
    /\ cgClosed' = TRUE
    /\ closeErr' = Nil
    /\ closeRet' = Nil
    /\ finished' = FALSE
    /\ UNCHANGED <<claim, sibling, aside, consumeErr, ready, setupCalled, panicked, startCtx,
                   starts, startPc, sup>>

\* c.cg.Close() returns, with or without an error; Close starts the
\* goroutine that waits for the WaitGroup.  sarama's Close takes the lock a
\* Consume call holds over its session, so it returns only when no session
\* is in progress.  (part_004:226-247)
CgCloseReturns ==
    /\ closePc = "cgClose"
    /\ \A k \in StartCalls : sup[k] # "session"
    /\ closeErr' \in {Nil, <<ClientCloseError>>}
    /\ closePc' = "wait"
    /\ UNCHANGED <<claim, sibling, aside, consumeErr, ready, setupCalled, panicked, startCtx,
                   cgClosed, starts, startPc, sup, finished, closeRet>>

\* variant: finished is closed without waiting for the WaitGroup
WaitDoneEarly ==
    /\ closePc = "wait"
    /\ ~finished
    /\ finished' = TRUE
    /\ UNCHANGED <<claim, sibling, aside, consumeErr, ready, setupCalled, panicked, startCtx,
                   cgClosed, starts, startPc, sup, closePc, closeErr, closeRet>>

\* c.wg.Wait() returns and the goroutine closes finished.  (part_004:246-249)
WaitDone ==
    /\ closePc = "wait"
    /\ ~finished
    /\ wg = 0
    /\ finished' = TRUE
    /\ UNCHANGED <<claim, sibling, aside, consumeErr, ready, setupCalled, panicked, startCtx,
                   cgClosed, starts, startPc, sup, closePc, closeErr, closeRet>>

\* select: <-finished  (part_004:252-254, 267-273)
CloseFinished ==
    /\ closePc = "wait"
    /\ finished
    /\ closeRet' = IF closeErr # Nil THEN Wrap(closeErr) ELSE Nil
    /\ closePc' = "returned"
    /\ UNCHANGED <<claim, sibling, aside, consumeErr, ready, setupCalled, panicked, startCtx,
                   cgClosed, starts, startPc, sup, closeErr, finished>>

\* variant: the timeout arm returns nothing of its own
CloseTimeoutSilent ==
    /\ closePc = "wait"
    /\ closeRet' = IF closeErr # Nil THEN Wrap(closeErr) ELSE Nil
    /\ closePc' = "timedOut"
    /\ UNCHANGED <<claim, sibling, aside, consumeErr, ready, setupCalled, panicked, startCtx,
                   cgClosed, starts, startPc, sup, closeErr, finished>>

\* select: <-time.After(waitTimeout): the timeout error when closeErr is
\* nil, else the wrapped closeErr.  (part_004:255-270)
CloseTimeout ==
    /\ closePc = "wait"
    /\ closeRet' = IF closeErr = Nil THEN <<CloseTimeoutError>> ELSE Wrap(closeErr)
    /\ closePc' = "timedOut"
    /\ UNCHANGED <<claim, sibling, aside, consumeErr, ready, setupCalled, panicked, startCtx,
                   cgClosed, starts, startPc, sup, closeErr, finished>>

GroupNext ==
    \/ CancelStart
    \/ Start
    \/ \E k \in StartCalls : StartReturns(k)
    \/ \E k \in StartCalls : Setup(k)
    \/ \E k \in StartCalls : Cleanup(k)
    \/ \E k \in StartCalls : Consume(k)
    \/ \E k \in StartCalls : DelayCancelled(k)
    \/ \E k \in StartCalls : DelayElapsed(k)
    \/ \E k \in StartCalls : Rejoin(k)
    \/ Close
    \/ CgCloseReturns
    \/ WaitDone
    \/ CloseFinished
    \/ CloseTimeout

GroupSpec == GroupInit /\ [][GroupNext]_vars

\* The steps the program's own scheduling brings about: a supervising
\* goroutine is scheduled and its timer fires; a Consume call whose context
\* is done or whose client is closed releases its session and returns; the
\* selects of Start and Close are taken once an arm is ready, and Close's
\* timer fires.  Nothing promises a session setup or a cancellation.
SupervisorStep(k) == DelayCancelled(k) \/ DelayElapsed(k) \/ Rejoin(k)
ConsumeStops(k) == (cgClosed \/ StartCtxDone) /\ (Cleanup(k) \/ Consume(k))
CloseStep == WaitDone \/ CloseFinished \/ CloseTimeout

GroupFairSpec ==
    /\ GroupSpec
    /\ \A k \in StartCalls : WF_vars(SupervisorStep(k))
    /\ \A k \in StartCalls : WF_vars(ConsumeStops(k))
    /\ \A k \in StartCalls : WF_vars(StartReturns(k))
    /\ WF_vars(CloseStep)

\* What Close does by itself: c.cg.Close() returns once no session holds the
\* client, and the timer of the wait fires.  The end of a session is the
\* handler's doing and is not promised here.
CloseFairSpec ==
    /\ GroupSpec
    /\ WF_vars(CgCloseReturns)
    /\ WF_vars(CloseStep)

\* ===================================================== isPermanentError
\* The errors of the program and of its libraries, and the wrapper of
\* fmt.Errorf("%w").
ErrorTags ==
    {ErrInvalidPostID, ErrEmptyTitle, ErrMissingAuthorID, ErrInvalidEventFormat,
     ContextCanceled, ContextDeadlineExceeded, JSONSyntaxError,
     JSONUnmarshalTypeError, PermanentError, ESError, ProducerError,
     DLQNotConfigured, ErrClosedConsumerGroup, ConsumeError, "fmt.wrapError"}

\* nil and every chain of at most MaxChain errors
ErrorChains == UNION {[1..n -> ErrorTags] : n \in 0..MaxChain}

ClassifyInit ==
    /\ ClaimIdle /\ SiblingIdle /\ GroupIdle /\ DocumentsIdle /\ OffsetsIdle
    /\ TopicsIdle
    /\ errIn \in ErrorChains
    /\ verdict = "none"

\* isPermanentError(err) is called and answers
Classify ==
    /\ verdict' = IF isPermanentError(errIn) THEN "permanent" ELSE "transient"
    /\ UNCHANGED <<claim, sibling, group, documents, offsets, topics, errIn>>

\* a caller wraps the error: fmt.Errorf("...: %w", err)
WrapError ==
    /\ errIn # Nil
    /\ Len(errIn) <= MaxChain
    /\ errIn' = Wrap(errIn)
    /\ UNCHANGED <<claim, sibling, group, documents, offsets, topics, verdict>>

ClassifyNext == Classify \/ WrapError

ClassifySpec == ClassifyInit /\ [][ClassifyNext]_vars

\* ========================================================= offset commit
\* saramaCfg.Consumer.Offsets.AutoCommit.Enable  (client.go:95)
AutoCommitEnable == FALSE

\* the highest offset ConsumeClaim has marked in the session
HighestMarked ==
    IF \E o \in Offsets : marks[o] > 0
    THEN CHOOSE o \in Offsets : marks[o] > 0 /\ \A q \in Offsets : marks[q] > 0 => q <= o
    ELSE 0

\* ConsumeClaim has returned and sarama releases the session.  Its offset
\* manager sends the marked offsets to the broker only under AutoCommit;
\* otherwise they wait for session.Commit(), which the program never calls.
ReleaseSession ==
    /\ pc = "returned"
    /\ ~sessionOver
    /\ sessionOver' = TRUE
    /\ committed' = IF AutoCommitEnable THEN HighestMarked ELSE committed
    /\ UNCHANGED <<claim, sibling, group, classify, documents, topics>>

OffsetsInit == ClaimsInit

OffsetsNext ==
    \/ Next
    \/ ReleaseSession

OffsetsSpec == OffsetsInit /\ [][OffsetsNext]_vars

\* The loop's steps are taken, the producer answers, the broker ends the
\* stream of the claim, and the session is released.
OffsetsFairSpec ==
    /\ OffsetsSpec
    /\ WF_vars(LoopStep)
    /\ WF_vars(SendMessageReturns)
    /\ WF_vars(CloseMessages)
    /\ WF_vars(ReleaseSession)

\* ============================================== two topics, one post
\* An approved event and a deleted event of post 1 go to the two topics the
\* Handler registers (handler.go:94-97): each topic's partition has its own
\* ConsumeClaim loop, both work on the one store.
EventTopics == {AuditTopic, DeleteTopic}
ThePost == 1
EventOf(t) ==
    IF t = AuditTopic
    THEN [valid |-> TRUE, id |-> ThePost, title |-> "title", operation |-> ""]
    ELSE [valid |-> TRUE, id |-> ThePost, title |-> "", operation |-> "delete"]

TopicsInit ==
    /\ ClaimIdle /\ SiblingIdle /\ GroupIdle
    /\ ClassifyIdle /\ DocumentsIdle /\ OffsetsIdle
    /\ produced = <<>>
    /\ loopPc = [t \in EventTopics |-> "range"]
    /\ loopTries = [t \in EventTopics |-> 0]
    /\ applied = <<>>
    /\ posts \in SUBSET {ThePost}

\* the producer publishes the event of topic t
Produce(t) ==
    /\ \A i \in DOMAIN produced : produced[i] # t
    /\ produced' = Append(produced, t)
    /\ UNCHANGED <<claim, sibling, group, classify, documents, offsets,
                   loopPc, loopTries, applied, posts>>

\* for message := range claim.Messages() in the loop of t's partition
\* (handler.go:168-169)
Receive(t) ==
    /\ loopPc[t] = "range"
    /\ \E i \in DOMAIN produced : produced[i] = t
    /\ loopPc' = [loopPc EXCEPT ![t] = "operation"]
    /\ UNCHANGED <<claim, sibling, group, classify, documents, offsets,
                   produced, loopTries, applied, posts>>

\* the processor of t's event with the store's answer to it
Processed(t, answer) ==
    IF t = AuditTopic
    THEN HandlePostApprovedEvent(posts, EventOf(t), answer)
    ELSE HandlePostDeleteEvent(posts, EventOf(t), answer)

\* variant: an event waits until the events produced before it are marked
InvokeInProductionOrder(t) ==
    /\ loopPc[t] = "operation"
    /\ \A i \in DOMAIN produced :
          (produced[i] # t /\ \E j \in DOMAIN produced : j > i /\ produced[j] = t)
              => loopPc[produced[i]] = "marked"
    /\ \E answer \in {"ok", "unavailable"} :
          LET r == Processed(t, answer)
          IN  /\ posts' = r.store
              /\ applied' = IF r.err = Nil THEN Append(applied, t) ELSE applied
              /\ IF r.err # Nil /\ loopTries[t] < MaxRetryLimit
                 THEN /\ loopTries' = [loopTries EXCEPT ![t] = @ + 1]
                      /\ UNCHANGED loopPc
                 ELSE /\ loopPc' = [loopPc EXCEPT ![t] = "marked"]
                      /\ UNCHANGED loopTries
    /\ UNCHANGED <<claim, sibling, group, classify, documents, offsets, produced>>

\* One invocation of the topic's handler under processWithRetry: on success
\* the message is marked; a transient failure is retried while retries are
\* left, and after the last the message goes to the dead-letter path and is
\* marked.  (handler.go:196-246, 302-347)
Invoke(t) ==
    /\ loopPc[t] = "operation"
    /\ \E answer \in {"ok", "unavailable"} :
          LET r == Processed(t, answer)
          IN  /\ posts' = r.store
              /\ applied' = IF r.err = Nil THEN Append(applied, t) ELSE applied
              /\ IF r.err # Nil /\ loopTries[t] < MaxRetryLimit
                 THEN /\ loopTries' = [loopTries EXCEPT ![t] = @ + 1]
                      /\ UNCHANGED loopPc
                 ELSE /\ loopPc' = [loopPc EXCEPT ![t] = "marked"]
                      /\ UNCHANGED loopTries
    /\ UNCHANGED <<claim, sibling, group, classify, documents, offsets, produced>>

TopicsNext ==
    \/ \E t \in EventTopics : Produce(t)
    \/ \E t \in EventTopics : Receive(t)
    \/ \E t \in EventTopics : Invoke(t)

TopicsSpec == TopicsInit /\ [][TopicsNext]_vars

\* ============================================================ redelivery
\* A document of the index: _id, the business fields the model keeps, and
\* the timestamp the repository stamps.
PostIDsValid == {1, 2}
TitlesValid == {"title", "edited"}

\* models.EsPostDocument built from the event  (part_003:97-109)
EsPostDocument(event) == [id |-> event.id, title |-> event.title]

\* variant: the request names no document ID
IndexRequestNoID(doc, t) ==
    [documentID |-> <<>>, id |-> doc.id, title |-> doc.title, updatedAt |-> t]

\* esapi.IndexRequest: DocumentID is strconv.FormatUint(doc.ID, 10) and the
\* body is the document with UpdatedAt = time.Now()  (es_post.go:123-149)
IndexRequest(doc, t) ==
    [documentID |-> FormatInt(doc.id), id |-> doc.id, title |-> doc.title,
     updatedAt |-> t]

\* Elasticsearch's index API: with a document ID the document of that ID is
\* created or replaced; without one a new ID is generated.
EsIndex(docs, req) ==
    IF req.documentID = <<>>
    THEN docs \cup {[req EXCEPT !.documentID = <<"auto">> \o FormatInt(req.updatedAt)]}
    ELSE {d \in docs : d.documentID # req.documentID} \cup {req}

\* the business fields of the documents, by document
Business(docs) ==
    {[documentID |-> d.documentID, id |-> d.id, title |-> d.title] : d \in docs}

\* the indexes that earlier events of the two posts can have left
StoredDocuments ==
    {IndexRequest([id |-> i, title |-> t], 0) : i \in PostIDsValid, t \in TitlesValid}
InitialIndexes ==
    {docs \in SUBSET StoredDocuments :
        \A d, e \in docs : d.documentID = e.documentID => d = e}

RedeliveryInit ==
    /\ ClaimIdle /\ SiblingIdle /\ GroupIdle /\ ClassifyIdle /\ OffsetsIdle
    /\ TopicsIdle
    /\ esIndex \in InitialIndexes
    /\ now = 0
    /\ redelivered \in {[id |-> i, title |-> t] : i \in PostIDsValid, t \in TitlesValid}
    /\ deliveries = 0
    /\ afterFirst = {}

\* HandlePostApprovedEvent for the valid event: IndexPost, which the store
\* answers or not  (part_003:97-139, es_post.go:122-203)
ProcessApproved ==
    /\ deliveries < MaxMsgs
    /\ now < MaxMsgs + MaxRetryLimit
    /\ now' = now + 1
    /\ \E answer \in {"ok", "unavailable"} :
          IF answer = "ok"
          THEN /\ esIndex' = EsIndex(esIndex, IndexRequest(EsPostDocument(redelivered), now'))
               /\ deliveries' = deliveries + 1
               /\ afterFirst' = IF deliveries = 0 THEN Business(esIndex') ELSE afterFirst
          ELSE UNCHANGED <<esIndex, deliveries, afterFirst>>
    /\ UNCHANGED <<claim, sibling, group, classify, offsets, topics, redelivered>>

RedeliveryNext == ProcessApproved

RedeliverySpec == RedeliveryInit /\ [][RedeliveryNext]_vars

\* ------------------------------------------------------------------------
\* the pulled message is of a topic without a handler
Unregistered == offset \in Offsets /\ message.topic \notin RegisteredTopics

C11_State ==
    Unregistered =>
        /\ pc \in {"lookup", "range", "returned"}
        /\ results = <<>> /\ svcCalls = 0 /\ answers = <<>>
        /\ notifies = 0
        /\ dlqCalls = 0 /\ sendCalls = 0 /\ sendState[offset] = "none"
        /\ marks[offset] = IF pc = "lookup" THEN 0 ELSE 1

C11_Step ==
    (Unregistered /\ pc = "lookup" /\ pc' # pc) =>
        /\ pc' = "range"
        /\ marks'[offset] = 1
        /\ store' = store

\* C11: a message whose topic has no handler is marked and skipped: no
\* processor is invoked for it, nothing is retried, nothing is forwarded to
\* the dead-letter topic, and the loop goes back to the range for the next
\* message.
C11_UnknownTopicSkipped == []C11_State /\ [][C11_Step]_vars

C11_Witness ==
    /\ Unregistered
    /\ pc = "range"
    /\ marks[offset] = 1
    /\ results = <<>>
    /\ dlqCalls = 0
    /\ offset = 1
    /\ delivered > pulled

\* ------------------------------------------------------------------------
\* the pulled message has a handler and a payload json.Unmarshal rejects
Undecodable ==
    /\ offset \in Offsets
    /\ message.topic \in RegisteredTopics
    /\ Unmarshal(message.value) # Nil

\* C12: a message whose payload cannot be deserialized is a permanent failure
\* at once: the EventService is never called for it, its topic handler runs
\* exactly once (no retry), one dead-letter forward is attempted and the
\* message is marked.
C12_UndecodableIsPermanent ==
    Undecodable =>
        /\ svcCalls = 0
        /\ \A i \in DOMAIN answers : answers[i] = "none"
        /\ Len(results) <= 1
        /\ notifies = 0
        /\ pc # "backoff"
        /\ dlqCalls <= 1
        /\ results # <<>> =>
              /\ PermanentFailure(results[1])
              /\ ErrorsIs(results[1], JSONSyntaxError)
              /\ pc # "operation"
        /\ pc \in {"dlqSelect"} \cup IterationDone =>
              /\ Len(results) = 1
              /\ dlqCalls = 1
        /\ pc \in IterationDone => marks[offset] = 1

C12_Witness ==
    /\ Undecodable
    /\ pc = "ctxCheck"
    /\ Len(results) = 1
    /\ svcCalls = 0
    /\ dlqCalls = 1
    /\ sendState[offset] = "ok"
    /\ marks[offset] = 1

\* ------------------------------------------------------------------------
\* the pulled message is a decodable approved event the processor rejects
InvalidApproved ==
    /\ offset \in Offsets
    /\ message.topic = AuditTopic
    /\ Unmarshal(message.value) = Nil
    /\ (message.value.id = 0 \/ message.value.title = "")

\* the sentinel the processor answers for the event
C13_Sentinel == IF message.value.id = 0 THEN ErrInvalidPostID ELSE ErrEmptyTitle

\* C13: the approved-event processor answers a permanent failure, without
\* calling the storage, for every event with post ID 0 and for every event
\* with an empty title; such a message is never retried and is forwarded to
\* the dead-letter topic exactly once, and for post ID 0 the record's
\* dlq_processing_error header carries the invalid-identifier error.
C13_InvalidApprovedIsPermanent ==
    InvalidApproved =>
        /\ \A i \in DOMAIN answers : answers[i] = "none"
        /\ Len(results) <= 1
        /\ notifies = 0
        /\ pc # "backoff"
        /\ dlqCalls <= 1 /\ sendCalls <= 1
        /\ results # <<>> =>
              /\ svcCalls = 1
              /\ PermanentFailure(results[1])
              /\ ErrorsIs(results[1], C13_Sentinel)
              /\ pc # "operation"
        /\ pc \in {"dlqSelect"} \cup IterationDone =>
              /\ Len(results) = 1
              /\ dlqCalls = 1
              /\ DLQConfigured(dlqProducer, dlqTopic) =>
                    /\ sendCalls = 1
                    /\ dlqMessage # NoRecord
                    /\ dlqMessage[1].dlq_original_offset = FormatInt(offset)
                    /\ ErrorsIs(dlqMessage[1].dlq_processing_error, C13_Sentinel)
        /\ pc \in IterationDone => marks[offset] = 1

C13_Witness ==
    /\ InvalidApproved
    /\ message.value.id = 0
    /\ pc = "ctxCheck"
    /\ results # <<>>
    /\ answers = <<"none">>
    /\ dlqCalls = 1
    /\ sendState[offset] = "ok"
    /\ ErrorsIs(dlqMessage[1].dlq_processing_error, ErrInvalidPostID)

\* ------------------------------------------------------------------------
\* the pulled message is a decodable deleted event with post ID 0
DeletedWithoutID ==
    /\ offset \in Offsets
    /\ message.topic = DeleteTopic
    /\ Unmarshal(message.value) = Nil
    /\ message.value.id = 0

\* the message was answered a permanent failure without a storage call, was
\* not retried and is forwarded to the dead-letter topic once
C14_PermanentOnce ==
    /\ \A i \in DOMAIN answers : answers[i] = "none"
    /\ Len(results) <= 1
    /\ notifies = 0
    /\ pc # "backoff"
    /\ dlqCalls <= 1
    /\ results # <<>> =>
          /\ PermanentFailure(results[1])
          /\ ErrorsIs(results[1], ErrInvalidPostID)
          /\ pc # "operation"
    /\ pc \in {"dlqSelect"} \cup IterationDone =>
          /\ Len(results) = 1
          /\ dlqCalls = 1
    /\ pc \in IterationDone => marks[offset] = 1

\* C14 as stated: every deleted event with post ID 0 is a permanent failure,
\* whatever its operation discriminator.
C14_EveryOperation == DeletedWithoutID => C14_PermanentOnce

\* C14: a deleted event with post ID 0 whose operation is "delete" is a
\* permanent failure (no storage call, no retry, one dead-letter forward);
\* with any other operation the handler returns success before the post ID
\* is looked at, and nothing is forwarded.
C14_DeleteOperationOnly ==
    DeletedWithoutID =>
        IF message.value.operation = "delete"
        THEN C14_PermanentOnce
        ELSE /\ \A i \in DOMAIN results : results[i] = Nil
             /\ Len(results) <= 1
             /\ svcCalls = 0
             /\ \A i \in DOMAIN answers : answers[i] = "none"
             /\ dlqCalls = 0

C14_Witness ==
    /\ DeletedWithoutID
    /\ message.value.operation = "delete"
    /\ pc = "ctxCheck"
    /\ svcCalls = 1
    /\ answers = <<"none">>
    /\ dlqCalls = 1
    /\ marks[offset] = 1

\* ------------------------------------------------------------------------
\* the pulled message is a decodable deleted event of another operation
OtherOperation ==
    /\ offset \in Offsets
    /\ message.topic = DeleteTopic
    /\ Unmarshal(message.value) = Nil
    /\ message.value.operation # "delete"

\* the store as it was when the message was pulled is not recorded; what a
\* step of the message changes is stated on the step
C15_Step == (OtherOperation /\ message' = message) => store' = store

C15_State ==
    OtherOperation =>
        /\ svcCalls = 0
        /\ \A i \in DOMAIN answers : answers[i] = "none"
        /\ \A i \in DOMAIN results : results[i] = Nil
        /\ Len(results) <= 1
        /\ notifies = 0
        /\ dlqCalls = 0 /\ sendCalls = 0 /\ sendState[offset] = "none"
        /\ pc \notin {"backoff", "dlqSelect"}
        /\ results # <<>> => (processErr = Nil /\ pc # "operation")
        /\ pc \in IterationDone => (Len(results) = 1 /\ marks[offset] = 1)

\* C15: a deleted event whose operation is not "delete" is a no-op success:
\* the storage is not called and not changed, the message is not retried,
\* nothing is forwarded to the dead-letter topic, and the message is marked.
C15_OtherOperationIsNoOp == []C15_State /\ [][C15_Step]_vars

C15_Witness ==
    /\ OtherOperation
    /\ message.value.id = 1
    /\ 1 \in store
    /\ pc = "ctxCheck"
    /\ results = <<Nil>>
    /\ answers = <<"none">>
    /\ dlqCalls = 0
    /\ marks[offset] = 1

\* ------------------------------------------------------------------------
\* the pulled message is a decodable deleted event the processor accepts
ValidDelete ==
    /\ offset \in Offsets
    /\ message.topic = DeleteTopic
    /\ Unmarshal(message.value) = Nil
    /\ message.value.operation = "delete"
    /\ message.value.id > 0

\* the storage answered the i-th invocation (found or not found)
Answered(i) == answers[i] \in {"ok", "not_found"}

C16_State ==
    ValidDelete =>
        /\ \A i \in DOMAIN results :
              Answered(i) =>
                 /\ results[i] = Nil
                 /\ i = Len(results)
                 /\ message.value.id \notin store
                 /\ processErr = Nil
                 /\ dlqCalls = 0
                 /\ pc \in {"processed"} \cup IterationDone
        /\ (results # <<>> /\ Answered(1)) => (Len(results) = 1 /\ notifies = 0)

\* an invocation for a key that is absent from the store
C16_AbsentKey ==
    /\ ValidDelete
    /\ pc = "operation"
    /\ message.value.id \notin store
    /\ results' # results

C16_Step ==
    C16_AbsentKey =>
        /\ store' = store
        /\ answers'[Len(answers')] # "ok"
        /\ answers'[Len(answers')] = "not_found" =>
              (results'[Len(results')] = Nil /\ pc' = "processed" /\ processErr' = Nil)

\* C16: deleting is idempotent.  A valid deleted event whose key is absent
\* from the store succeeds when the storage answers (its not-found answer
\* is not an error) and leaves the store without the key; so the same
\* deleted event processed again succeeds again, and an answered delete is
\* never retried and never forwarded to the dead-letter topic.
C16_IdempotentDelete == []C16_State /\ [][C16_Step]_vars

C16_Witness ==
    /\ ValidDelete
    /\ offset = 2
    /\ pc = "ctxCheck"
    /\ answers = <<"not_found">>
    /\ results = <<Nil>>
    /\ notifies = 0
    /\ dlqCalls = 0
    /\ message.value.id \notin store
    /\ marks[1] = 1 /\ marks[2] = 1

\* ------------------------------------------------------------------------
\* the number a header's decimal text stands for
DigitValue(c) == CHOOSE d \in 0..9 : Digits[d + 1] = c
RECURSIVE ParseInt(_)
ParseInt(text) ==
    IF Len(text) = 1 THEN DigitValue(text[1])
    ELSE 10 * ParseInt(SubSeq(text, 1, Len(text) - 1)) + DigitValue(text[Len(text)])

\* SendToDLQ has handed a record for the pulled message to the producer
HandedToProducer == offset \in Offsets /\ sendCalls >= 1

\* C17: every record SendToDLQ hands to the producer is addressed to the
\* configured dead-letter topic, carries the original value and the original
\* key unchanged, and names the original topic, partition and offset in its
\* dlq_original_topic, dlq_original_partition and dlq_original_offset headers.
C17_RecordPreservesOriginal ==
    HandedToProducer =>
        /\ dlqMessage # NoRecord
        /\ dlqMessage[1].topic = dlqTopic
        /\ dlqTopic = DLQTopicName
        /\ dlqMessage[1].value = message.value
        /\ dlqMessage[1].key = message.key
        /\ dlqMessage[1].dlq_original_topic = message.topic
        /\ ParseInt(dlqMessage[1].dlq_original_partition) = partition
        /\ ParseInt(dlqMessage[1].dlq_original_offset) = offset

C17_Witness ==
    /\ HandedToProducer
    /\ offset = 2
    /\ pc = "dlqSelect"
    /\ message.key = PostKey
    /\ dlqMessage[1].key = PostKey
    /\ dlqMessage[1].dlq_original_offset = <<"2">>
    /\ dlqMessage[1].dlq_original_topic = AuditTopic

\* ------------------------------------------------------------------------
\* SendToDLQ waits in its select and the producer has not answered
AwaitingProducer ==
    /\ offset \in Offsets
    /\ pc = "dlqSelect"
    /\ sendState[offset] = "sending"

C18_Step ==
    (AwaitingProducer /\ pc' # pc) =>
        /\ pc' = "ctxCheck"
        /\ ErrorsIs(dlqErr', ContextDeadlineExceeded)
        /\ sendState' = sendState

\* C18: SendToDLQ never blocks its caller past the deadline of the context
\* it is given: it always returns, and when it returns while the producer
\* has not answered it returns the deadline error, even if SendMessage never
\* returns.
C18_ReturnsAtDeadline ==
    /\ (pc = "dlqSelect") ~> (pc # "dlqSelect")
    /\ [][C18_Step]_vars

C18_Witness ==
    /\ offset \in Offsets
    /\ pc = "ctxCheck"
    /\ sendState[offset] = "sending"
    /\ ErrorsIs(dlqErr, ContextDeadlineExceeded)
    /\ marks[offset] = 1

\* ------------------------------------------------------------------------
C19_State ==
    /\ dlqCalls <= 1
    /\ sendCalls <= dlqCalls
    /\ dlqCalls = 1 => (results # <<>> /\ results[Len(results)] # Nil /\ processErr # Nil)
    /\ \A o \in Offsets : sendState[o] # "none" => o <= pulled

\* a SendMessage call that has returned is not made again
C19_Step ==
    \A o \in Offsets :
        /\ sendState[o] \in {"ok", "failed"} => sendState'[o] = sendState[o]
        /\ (sendState[o] = "none" /\ sendState'[o] # "none") =>
              (o = offset /\ sendState'[o] = "sending" /\ sendCalls' = 1)

\* C19: the dead-letter forward is never retried: ConsumeClaim calls
\* SendToDLQ at most once for a message and only after its terminal failure,
\* a SendToDLQ call calls SendMessage at most once, and a send that has
\* returned, published or failed, is not made again.
C19_ForwardNotRetried == []C19_State /\ [][C19_Step]_vars

C19_Witness ==
    /\ offset \in Offsets
    /\ pc = "ctxCheck"
    /\ dlqCalls = 1
    /\ sendCalls = 1
    /\ sendState[offset] = "failed"
    /\ ErrorsIs(dlqErr, ProducerError)
    /\ marks[offset] = 1

\* ------------------------------------------------------------------------
\* the ways SendToDLQ's call of handler.go:217 can end
C20_ForwardOutcome(err) ==
    \/ err = Nil
    \/ ErrorsIs(err, ProducerError)
    \/ ErrorsIs(err, ContextDeadlineExceeded)
    \/ err = <<DLQNotConfigured>>

\* cancelling the session leaves a forward in progress as it is
C20_CancelStep ==
    (pc = "dlqSelect" /\ ctxCancelled' # ctxCancelled) =>
        (pc' = pc /\ sendState' = sendState /\ dlqErr' = dlqErr /\ marks' = marks)

\* the forward starts after a terminal failure and ends in its own ways
C20_ForwardStep ==
    /\ (pc = "processed" /\ processErr # Nil /\ pc' # pc) =>
          /\ dlqCalls' = 1
          /\ DLQConfigured(dlqProducer, dlqTopic) =>
                (pc' = "dlqSelect" /\ sendCalls' = 1 /\ sendState'[offset] = "sending")
    /\ (pc \in {"processed", "dlqSelect"} /\ processErr # Nil /\ pc' = "ctxCheck") =>
          /\ C20_ForwardOutcome(dlqErr')
          /\ ~ErrorsIs(dlqErr', ContextCanceled)
          /\ sendState[offset] = "sending" => ErrorsIs(dlqErr', ContextDeadlineExceeded)

\* C20: the dead-letter forward runs under its own deadline, independent of
\* the session context: cancelling the session neither aborts nor changes
\* a forward in progress, and a message that failed terminally, also while
\* the session is cancelled, gets its forward attempt, which ends only by the
\* producer's answer or by its own deadline.
C20_ForwardIndependentOfSession == [][C20_CancelStep /\ C20_ForwardStep]_vars

C20_Witness ==
    /\ offset \in Offsets
    /\ ctxCancelled
    /\ ErrorsIs(processErr, ContextCanceled)
    /\ pc = "ctxCheck"
    /\ dlqCalls = 1
    /\ sendState[offset] = "ok"
    /\ dlqErr = Nil

\* ========================================================================
C21_State ==
    /\ ~panicked
    /\ (ready = "open") <=> ~setupCalled

C21_Step ==
    /\ ready = "closed" => ready' = "closed"
    /\ ready' # ready => (~setupCalled /\ setupCalled')

\* C21: the readiness signal is one-shot and monotonic: ready is open until
\* the first Setup call, is closed by that call and stays closed; a later
\* Setup call and any Cleanup call leave it closed, and none of them
\* panics.
C21_ReadyOneShot == []C21_State /\ [][C21_Step]_vars

\* a second session was set up after the first one was cleaned up
C21_Witness ==
    /\ ready = "closed"
    /\ ~panicked
    /\ \E j, k \in StartCalls : sup[j] = "released" /\ sup[k] = "session"

\* ------------------------------------------------------------------------
\* C22: Start does not hard-block its caller: every Start call eventually
\* returns, also when no session is ever set up and when the supervising
\* goroutine has stopped because the group was closed.
C22_StartReturns ==
    \A k \in StartCalls : (startPc[k] = "waiting") ~> (startPc[k] = "returned")

\* ------------------------------------------------------------------------
\* the Start calls that launched a goroutine
Launched == {k \in StartCalls : sup[k] # "none"}

\* C23 as stated: a ConsumerGroup never has more than one supervising
\* goroutine, nor more than one outstanding Consume call.
C23_AtMostOne == Cardinality(Supervising) <= 1 /\ Cardinality(InConsume) <= 1

\* C23: every Start call launches exactly one supervising goroutine and
\* Close launches none, so there are never more supervising goroutines, nor
\* more outstanding Consume calls, than Start calls made; a second Start
\* call does launch a second goroutine.
C23_OnePerStart ==
    /\ Launched = 1..starts
    /\ Supervising \subseteq Launched
    /\ InConsume \subseteq Supervising
    /\ Cardinality(Supervising) <= starts
    /\ \A k \in StartCalls : startPc[k] # "none" <=> k \in Launched

C23_Witness ==
    /\ starts = 2
    /\ Cardinality(InConsume) = 2
    /\ closePc # "idle"

\* ------------------------------------------------------------------------
\* this step is the return of the Consume call of goroutine k
ConsumeReturned(k) ==
    /\ sup[k] \in {"consume", "released"}
    /\ sup'[k] \in {"exited", "delay", "ctxCheck"}

C24_Step ==
    \A k \in StartCalls :
        /\ (ConsumeReturned(k) /\ consumeErr'[k] = Nil) => sup'[k] = "ctxCheck"
        /\ (sup[k] = "ctxCheck" /\ consumeErr[k] = Nil /\ ~StartCtxDone /\ sup'[k] # sup[k])
              => sup'[k] = "consume"

\* C24: when Consume returns without an error and the context is not
\* cancelled, the supervising loop does not exit and does not wait: its
\* next step is the next Consume call.
C24_RejoinsAfterNil == [][C24_Step]_vars

\* Consume has returned nil after a session, under a live context
C24_Witness ==
    \E k \in StartCalls :
        /\ sup[k] = "ctxCheck"
        /\ consumeErr[k] = Nil
        /\ setupCalled
        /\ ~StartCtxDone

\* ------------------------------------------------------------------------
\* the three errors of Consume that mean an orderly stop
C25_StopErrors ==
    {<<ErrClosedConsumerGroup>>, <<ContextCanceled>>, <<ContextDeadlineExceeded>>}

C25_Step ==
    \A k \in StartCalls :
        /\ (ConsumeReturned(k) /\ consumeErr'[k] \in C25_StopErrors)
              => sup'[k] = "exited"
        /\ sup[k] = "exited" => sup'[k] = "exited"
        /\ (sup[k] # "exited" /\ sup'[k] = "exited")
              => \/ ConsumeReturned(k) /\ consumeErr'[k] \in C25_StopErrors
                 \/ StartCtxDone

\* C25: when Consume returns the closed-group error, context.Canceled or
\* context.DeadlineExceeded the supervising goroutine exits and calls Consume
\* no more; apart from that it exits only when the caller's context is
\* cancelled.
C25_ExitsOnlyOnStop == [][C25_Step]_vars

\* a goroutine that exited on the closed-group error under a live context
C25_Witness ==
    \E k \in StartCalls :
        /\ sup[k] = "exited"
        /\ consumeErr[k] = <<ErrClosedConsumerGroup>>
        /\ ~StartCtxDone

\* ------------------------------------------------------------------------
C26_Step ==
    \A k \in StartCalls :
        /\ (ConsumeReturned(k) /\ consumeErr'[k] # Nil
                /\ consumeErr'[k] \notin C25_StopErrors)
              => sup'[k] = "delay"
        /\ (sup[k] = "delay" /\ sup'[k] # "delay")
              => \/ sup'[k] = "ctxCheck"
                 \/ sup'[k] = "exited" /\ StartCtxDone
        /\ (sup[k] = "ctxCheck" /\ consumeErr[k] # Nil /\ sup'[k] # "ctxCheck")
              => sup'[k] = IF StartCtxDone THEN "exited" ELSE "consume"

\* C26: on any other error of Consume the loop does not exit: it waits out
\* the retry delay and calls Consume again, unless the context is cancelled
\* in the delay, and then the goroutine exits without another Consume call.
C26_RetriesAfterDelay == [][C26_Step]_vars

\* the delay after an error of Consume has elapsed under a live context
C26_Witness ==
    \E k \in StartCalls :
        /\ sup[k] = "ctxCheck"
        /\ consumeErr[k] = <<ConsumeError>>
        /\ ~StartCtxDone

\* ------------------------------------------------------------------------
C27_Step ==
    \A k \in StartCalls :
        (StartCtxDone /\ sup[k] \in {"delay", "ctxCheck", "exited"})
            => sup'[k] \in {"delay", "ctxCheck", "exited"}

\* C27: once the context is cancelled every supervising goroutine leaves its
\* loop, wherever it is, and from the delay or the check after Consume it
\* reaches no further Consume call.
C27_ExitsAfterCancel ==
    /\ \A k \in StartCalls :
           (StartCtxDone /\ k \in Supervising) ~> (sup[k] = "exited")
    /\ [][C27_Step]_vars

\* a goroutine that left the loop at the context check that follows a
\* Consume call which returned nil
C27_Witness ==
    /\ StartCtxDone
    /\ \E k \in StartCalls : sup[k] = "exited" /\ consumeErr[k] = Nil

\* ------------------------------------------------------------------------
\* this step is the timeout arm of Close's select, taken while a supervising
\* goroutine has not exited
TimesOutAlive ==
    /\ closePc = "wait"
    /\ closePc' = "timedOut"
    /\ wg > 0

\* C28 as stated: whenever the wait of Close times out on a goroutine that
\* has not exited, Close returns the error that describes the timeout.
C28_TimeoutErrorAlways ==
    [][TimesOutAlive => closeRet' = <<CloseTimeoutError>>]_vars

\* C28: when the wait of Close times out on a goroutine that has not exited,
\* Close returns an error: the one that describes the timeout if closing the
\* client succeeded, and the wrapped error of the client's Close otherwise.
C28_TimeoutOrCloseError ==
    [][TimesOutAlive =>
          /\ closeRet' # Nil
          /\ closeErr = Nil => closeRet' = <<CloseTimeoutError>>
          /\ closeErr # Nil => closeRet' = Wrap(closeErr)]_vars

\* the wait timed out with a goroutine still supervising, after a failed
\* close of the client
C28_Witness ==
    /\ closePc = "timedOut"
    /\ wg > 0
    /\ closeErr # Nil

Blocked == pc \in {"backoff", "dlqSelect"}

C30_SiblingFree ==
    Blocked =>
        /\ (siblingPc = "range" /\ siblingMarks < MaxMsgs) => ENABLED SiblingPull
        /\ siblingPc = "processing" => ENABLED SiblingProcessed

C30_Step ==
    /\ sibling' # sibling => claim' = claim
    /\ claim' # claim => sibling' = sibling

C31_PermanentTags ==
    {ContextCanceled, ContextDeadlineExceeded, ErrInvalidPostID, ErrEmptyTitle,
     ErrMissingAuthorID, ErrInvalidEventFormat, JSONSyntaxError,
     JSONUnmarshalTypeError}

C31_Class(err) ==
    IF \E i \in DOMAIN err : err[i] \in C31_PermanentTags
    THEN "permanent" ELSE "transient"

\* C31: isPermanentError answers for every error: false for nil, true for
\* a chain that holds a context error, one of the four sentinels or a JSON
\* syntax or type error, false for any other; and the answer given for an
\* error is also the class of that error wrapped again.
C31_TotalClassifier ==
    /\ verdict # "none" => verdict = C31_Class(errIn)
    /\ isPermanentError(Wrap(errIn)) = isPermanentError(errIn)

\* a sentinel two wrappers deep has been classified permanent
C31_Witness ==
    /\ verdict = "permanent"
    /\ Len(errIn) = 3
    /\ errIn[1] = "fmt.wrapError"
    /\ errIn[2] = "fmt.wrapError"
    /\ errIn[3] = ErrEmptyTitle

\* ------------------------------------------------------------------------
\* invocation i of the processor for the pulled message got a storage error
StorageFailed(i) == answers[i] \in {"unavailable", "cancelled"}
\* the retry executor went on, or will go on, after invocation i
RetriedAfter(i) == i < Len(results) \/ pc \in {"backoff", "operation"}

\* C32: the error a processor returns for a storage error has the class of
\* the storage error: a transient one is retried while retries are left, and
\* one caused by the cancelled context ends the retries.
C32_StorageClassKept ==
    \A i \in DOMAIN answers :
        /\ StorageFailed(i) =>
              isPermanentError(results[i]) = isPermanentError(StorageError(answers[i]))
        /\ answers[i] = "unavailable" =>
              /\ ~isPermanentError(results[i])
              /\ RetriedAfter(i) \/ i = maxRetry + 1
        /\ answers[i] = "cancelled" =>
              /\ isPermanentError(results[i])
              /\ ~RetriedAfter(i)

\* an unavailable store was retried, and the retry failed on the cancelled
\* context with a retry still left
C32_Witness ==
    /\ Len(answers) = 2
    /\ answers[1] = "unavailable"
    /\ answers[2] = "cancelled"
    /\ maxRetry = 2
    /\ pc = "processed"

\* ------------------------------------------------------------------------
\* the documents of the index that belong to the redelivered post
DocumentsOfPost == {d \in esIndex : d.id = redelivered.id}

\* C33: however often a valid approved event is processed, the index holds
\* exactly one document for its post, and every document has the business
\* fields it had after the first processing.
C33_RedeliveryHarmless ==
    deliveries >= 1 =>
        /\ Cardinality(DocumentsOfPost) = 1
        /\ Business(esIndex) = afterFirst
        /\ \A d \in DocumentsOfPost : d.title = redelivered.title

\* the event was processed twice next to a document of the other post, and
\* the second processing replaced the document the first had written
C33_Witness ==
    /\ deliveries = 2
    /\ \E d \in DocumentsOfPost : d.updatedAt >= 2
    /\ esIndex # {}
    /\ Cardinality(esIndex) = 2

\* ------------------------------------------------------------------------
\* the last invocation for the pulled message failed on the cancelled context
FailedOnCancel == answers # <<>> /\ answers[Len(answers)] = "cancelled"

\* C34: a failure on the cancelled context is final: the processor is not
\* invoked again, one dead-letter forward is attempted, the message is
\* marked, and only after that ConsumeClaim returns the context's error.
C34_CancelIsPermanent ==
    FailedOnCancel =>
        /\ pc \in {"processed", "dlqSelect", "ctxCheck", "returned"}
        /\ processErr # Nil
        /\ pc \in {"dlqSelect", "ctxCheck", "returned"} => dlqCalls = 1
        /\ pc \in {"ctxCheck", "returned"} => marks[offset] = 1
        /\ pc = "returned" => ret = "ctxErr"

\* the first invocation failed on the cancelled context with retries left;
\* the message went to the dead-letter producer, was marked, and the loop
\* returned the context's error
C34_Witness ==
    /\ FailedOnCancel
    /\ Len(results) = 1
    /\ maxRetry >= 1
    /\ sendCalls = 1
    /\ marks[offset] = 1
    /\ pc = "returned"
    /\ ret = "ctxErr"

\* ------------------------------------------------------------------------
C35_Count ==
    IF pc \in {"backoff", "operation"}
    THEN notifies = Len(results)
    ELSE results # <<>> => notifies = Len(results) - 1

C35_Step ==
    notifies' = notifies + 1 =>
        /\ pc = "operation" /\ pc' = "backoff"
        /\ UNCHANGED <<config, ctxCancelled, channel, pulled, message, processErr,
                       dlqErr, ret, store, marks, dlqCalls, sendCalls, sendState>>

\* C35: the notification callback is called once before each retry and at
\* no other time, so that a message with n processor invocations has n - 1
\* notifications; the step that notifies leaves the handler's configuration,
\* the acknowledgements and the store as they were.
C35_NotifyBeforeRetry == []C35_Count /\ [][C35_Step]_vars

\* three invocations, all failed, and two notifications
C35_Witness ==
    /\ Len(results) = 3
    /\ notifies = 2
    /\ pc = "processed"
    /\ processErr # Nil

\* ------------------------------------------------------------------------
\* C36: the offset of every message ConsumeClaim has marked is in the end
\* committed at the broker.
C36_MarkedIsCommitted ==
    \A o \in Offsets : (marks[o] > 0) ~> (committed >= o)

\* ------------------------------------------------------------------------
BothMarked == \A t \in EventTopics : loopPc[t] = "marked"
BothPending == \A t \in EventTopics : loopPc[t] = "operation"

\* C37: the loops of the two topics do not wait for each other: when both
\* hold their event of the post, either may reach the store first, whichever
\* was produced first; and once both events are marked the store holds the
\* post exactly when the approved event was the last to reach it.
C37_NoCrossTopicOrder ==
    /\ BothPending =>
          /\ ENABLED Invoke(AuditTopic)
          /\ ENABLED Invoke(DeleteTopic)
    /\ (BothMarked /\ applied # <<>>) =>
          (ThePost \in posts <=> applied[Len(applied)] = AuditTopic)

\* approved was produced before deleted, deleted reached the store first,
\* both are marked and the store holds the post
C37_Witness ==
    /\ produced = <<AuditTopic, DeleteTopic>>
    /\ applied = <<DeleteTopic, AuditTopic>>
    /\ BothMarked
    /\ ThePost \in posts

\* SendToDLQ has returned for the message at offset o while the goroutine it
\* started is still inside producer.SendMessage.
LateSend(o) ==
    /\ sendState[o] = "sending"
    /\ ~(pc = "dlqSelect" /\ offset = o)

\* A late publish outcome arrives: nothing of the claim loop moves with it.
C38_Step ==
    \A o \in Offsets :
        (LateSend(o) /\ sendState'[o] # "sending")
            => /\ sendState'[o] \in {"ok", "failed"}
               /\ UNCHANGED <<marks, pc, message, pulled, numTries, processErr,
                              dlqErr, ret, store, dlqCalls, sendCalls>>

\* C38: the goroutine SendToDLQ starts never blocks on handing over its result.
\* When SendToDLQ has already returned on its timeout (the message is then
\* acknowledged), the goroutine still ends once SendMessage returns, and the
\* step that delivers the late outcome changes neither the marks nor anything
\* else of the claim loop.
C38_LateResultDropped ==
    /\ [](\A o \in Offsets : LateSend(o) => marks[o] > 0)
    /\ [][C38_Step]_vars
    /\ \A o \in Offsets : LateSend(o) ~> (sendState[o] \in {"ok", "failed"})

\* The first message was acknowledged after the dead-letter timeout and the
\* loop is at the second one while the first publish is still in flight.
C38_Witness ==
    /\ LateSend(1)
    /\ marks[1] > 0
    /\ dlqErr = Wrap(<<ContextDeadlineExceeded>>)
    /\ pulled = 2

\* Close returns nil: its select is left with no error to report.
CloseReturnsNil ==
    /\ closePc = "wait"
    /\ closePc' \in {"returned", "timedOut"}
    /\ closeRet' = Nil

\* The statement as it stands: at the step where Close returns nil the
\* client was closed without error and no supervising goroutine is running.
C39_NilMeansNoneRunning ==
    [][CloseReturnsNil => (closeErr = Nil /\ wg = 0)]_vars

C39_Step ==
    /\ CloseReturnsNil => (closeErr = Nil /\ finished /\ closePc' = "returned")
    /\ (~finished /\ finished') => (closePc = "wait" /\ wg = 0)
    /\ (finished /\ closePc = "wait" /\ closePc' = "wait") => finished'
    /\ \A k \in StartCalls : sup[k] = "exited" => sup'[k] = "exited"

\* C39: Close returns nil only through the finished arm of its select and
\* with no error from the client's Close; finished is closed only at a moment
\* when the WaitGroup counter is zero, that is when every supervising
\* goroutine launched so far has exited, and an exited goroutine stays so.
\* A goroutine launched by a Start call after that moment is not waited for.
C39_NilMeansWaitedFor == [][C39_Step]_vars

\* Close has returned nil after goroutines were launched and all have exited.
C39_Witness ==
    /\ closePc = "returned"
    /\ closeRet = Nil
    /\ starts >= 1
    /\ wg = 0

====
